---- MODULE Spec2Model ----
(***************************************************************************)
(* Bitcoin payment core of the donations platform: address generation,     *)
(* blockchain monitoring, client-side payment checks, expiry and cleanup.  *)
(*                                                                         *)
(* Convex mutations and queries are atomic transactions; actions           *)
(* (generateBitcoinAddress, checkBitcoinPayment, monitorSinglePayment) are *)
(* not: they interleave at every runQuery / runMutation / external call.   *)
(* Each action of this module is one such transaction (with the local      *)
(* computation that follows it).                                           *)
(*                                                                         *)
(* Units: time in seconds, BTC amounts in 1e-6 BTC, prices in kUSD/BTC,    *)
(* USD amounts in dollars.                                                 *)
(***************************************************************************)
EXTENDS Integers, Sequences, FiniteSets, TLC

\* ---------------------------------------------------------------- bounds
MaxIndex == 3
MaxCalls == 2

\* ------------------------------------------------------ program constants
minDonationAmount == 1
maxDonationAmount == 100000
btcAmountTolerance == 10
bitcoinConfirmations == [mainnet |-> 3, testnet |-> 6]
generateAddressPeriod == 300
generateAddressCapacity == 1
checkPaymentPeriod == 10
checkPaymentRate == 1
monitorDelay == 10
paymentLifetime == 86400
expiredRetention == 604800
exchangeRateCache == 300

\* ----------------------------------------------------------- input sets
Sessions == {"s1", "s2"}
Amounts == {0, 50}
Prices == {50}
\* what the oracle quotes when a payment is checked: the price has moved since
\* the quote of the row
CheckPrices == {100}
\* the exchanges the oracle asks, and what one of them answers: no usable
\* answer (timeout, network error, HTTP error, no price in the body), or a quote
\* in kUSD per BTC (even numbers, so that the mean of two quotes is exact)
exchangeApis == <<"Coinbase", "Kraken", "Binance">>
Quotes == {40, 50, 60, 90}
ExchangeAnswers == [ok : {FALSE}, price : {0}] \cup [ok : {TRUE}, price : Quotes]
NoMeta == [player_name |-> "", use_player_name |-> FALSE, message |-> ""]
Named == [player_name |-> "bob", use_player_name |-> TRUE, message |-> "hi"]
Metas == {NoMeta, Named}
MetaOf(session_id) == IF session_id = "s1" THEN Named ELSE NoMeta
\* the instants at which something happens: a repeat after 10 s, the refill of
\* the token bucket, the expiry of a row, a repeat 10 s after that
GenTimes == {0, monitorDelay, generateAddressPeriod, paymentLifetime,
             paymentLifetime + monitorDelay}
\* two wake-ups of the monitor, just past the expiry of a row, just past the
\* retention of an expired row
PayTimes == {0, monitorDelay, 2 * monitorDelay, paymentLifetime + monitorDelay,
             paymentLifetime + expiredRetention + monitorDelay}
Indices == 0 .. (MaxIndex - 1)
GenIds == {1, 2}
ChkIds == {1, 2}
Keys == Sessions \X (Amounts \ {0})
\* what a donor may send for an expected amount: all of it, short by more
\* than the tolerance, or so much more that it is worth more than
\* maxDonationAmount at the quoted rate
PaidAmounts(expected) == {expected, expected - btcAmountTolerance - 1,
                          2100 * expected}

\* amounts around the tolerance: short by one unit more than it, by exactly
\* it and by one unit less, the expected amount, and the same three above it
NearAmounts(expected) ==
  {expected - btcAmountTolerance - 1, expected - btcAmountTolerance,
   expected - btcAmountTolerance + 1, expected,
   expected + btcAmountTolerance - 1, expected + btcAmountTolerance,
   expected + btcAmountTolerance + 1}

\* what the explorers' endpoints answer to one probe: the address request and
\* the transaction request of each explorer get a 200, a 404, another error
\* status, or throw (network error, timeout); the tip height request works
\* or fails
Networks == {"mainnet", "testnet"}
AddressAnswers == {"ok", "404", "500", "throws"}
TxAnswers == {"ok", "500", "throws"}
HeightAnswers == {"ok", "fails"}
Https == [mempool_address : AddressAnswers, mempool_txs : TxAnswers,
          blockstream_address : AddressAnswers, blockstream_tx : TxAnswers,
          height : HeightAnswers]
AllUp == [mempool_address |-> "ok", mempool_txs |-> "ok",
          blockstream_address |-> "ok", blockstream_tx |-> "ok",
          height |-> "ok"]
AllDown == [mempool_address |-> "throws", mempool_txs |-> "throws",
            blockstream_address |-> "throws", blockstream_tx |-> "throws",
            height |-> "fails"]

\* transaction ids a caller may pass: the one on the chain and another one
TxIds == {"tx", "replaced"}

VARIABLES
  now,                      \* Date.now()
  bitcoin_config,           \* value of the next_derivation_index row, -1 = no row
  pending_bitcoin_payments, \* table, in insertion (_creationTime) order
  donations,                \* table, in insertion order
  rate_limits,              \* rate limiter component state per <<name, key>>
  scheduled,                \* scheduled monitorSinglePayment jobs
  chain,                    \* what the blockchain holds per address index
  gen,                      \* generateBitcoinAddress invocations
  chk,                      \* checkBitcoinPayment invocations
  mon,                      \* running monitorSinglePayment invocation per address
  last_return,              \* history: last address returned per (session, amount)
  max_returned,             \* history: largest derivation_index returned so far
  cdfp,                     \* history: createDonationFromPayment calls per address
  outcome,                  \* history: how the latest handler step ended
  probed,                   \* history: the latest probe, what the explorers
                            \* answered and what it returned
  fetched                   \* history: the latest price fetch, what the
                            \* exchanges answered and what it returned

vars == <<now, bitcoin_config, pending_bitcoin_payments,
          donations, rate_limits, scheduled, chain, gen, chk, mon,
          last_return, max_returned, cdfp, outcome, probed, fetched>>

\* ------------------------------------------------------------- pure code
Min(a, b) == IF a < b THEN a ELSE b

\* deriveBip84Address: the receive address of m/84'/0'/0'/0/{index}; the
\* hash chain is abstracted to a tag that keeps the network prefix and index.
deriveBip84Address(index, network) ==
  <<(IF network = "testnet" THEN "tb1" ELSE "bc1"), index>>

Network == "mainnet"

\* bitcoinConfirmations[env.BITCOIN_NETWORK]
requiredConfirmations == bitcoinConfirmations[Network]
Addresses == {deriveBip84Address(i, Network) : i \in Indices}
\* payment_id of a donation.create call: a checkout session id or any string
CreateIds == {<<"cs", 1>>, deriveBip84Address(0, Network)}
IndexOf(address) == address[2]

validDonationAmount(amount) ==
  amount >= minDonationAmount /\ amount <= maxDonationAmount

getDisplayName(metadata, fallback) ==
  IF metadata.use_player_name /\ metadata.player_name # ""
  THEN metadata.player_name ELSE fallback

\* amount / btcPrice and amount_btc * price in the model's units
BtcOf(usd, price) == (usd * 1000) \div price
UsdOf(btc, price) == (btc * price) \div 1000

\* expected_btc_amount of a checkBitcoinPayment call: omitted (0) or the quote
ExpectedArgs == {0} \cup {BtcOf(a, p) : a \in Amounts \ {0}, p \in Prices}

\* ------------------------------------------------------- table look-ups
\* .withIndex('by_address', ...).first(): position of the oldest match, 0 = none
MinOf(S) == IF S = {} THEN 0 ELSE CHOOSE i \in S : \A j \in S : i <= j

RowByAddress(address) ==
  MinOf({i \in 1 .. Len(pending_bitcoin_payments) :
           pending_bitcoin_payments[i].address = address})

RowBySessionAmount(session_id, amount) ==
  MinOf({i \in 1 .. Len(pending_bitcoin_payments) :
           /\ pending_bitcoin_payments[i].session_id = session_id
           /\ pending_bitcoin_payments[i].expected_amount_usd = amount})

DonationByPaymentId(payment_id) ==
  MinOf({i \in 1 .. Len(donations) : donations[i].payment_id = payment_id})

\* ---------------------------------------------------------- rate limiter
\* State of one limit: value (scaled by the period for the token bucket) and ts.
NoLimit == [value |-> -1, ts |-> 0]

\* token bucket, rate 1 / period, capacity 1: refill by elapsed time, cap, take 1
TokenBucketAfter(st, t) ==
  LET cap == generateAddressCapacity * generateAddressPeriod
      cur == IF st = NoLimit THEN cap
             ELSE Min(st.value + (t - st.ts), cap)
  IN  [ok |-> cur - generateAddressPeriod >= 0,
       st |-> [value |-> cur - generateAddressPeriod, ts |-> t]]

\* fixed window, rate 1 per period: refill once per elapsed window
FixedWindowAfter(st, t, start) ==
  LET base == IF st = NoLimit THEN [value |-> checkPaymentRate, ts |-> start]
              ELSE st
      elapsedWindows == (t - base.ts) \div checkPaymentPeriod
      cur == Min(base.value + checkPaymentRate * elapsedWindows, checkPaymentRate)
  IN  [ok |-> cur - 1 >= 0,
       st |-> [value |-> cur - 1,
               ts |-> base.ts + elapsedWindows * checkPaymentPeriod]]

\* rateLimiter.limit(ctx, name, {key}): the state is written only when the
\* request fits; the returned {ok, retryAfter} is what the caller gets back.
LimitResult(name, key, t, start) ==
  IF name = "generateAddress"
  THEN TokenBucketAfter(rate_limits[<<name, key>>], t)
  ELSE FixedWindowAfter(rate_limits[<<name, key>>], t, start)

LimitState(name, key, t, start) ==
  LET r == LimitResult(name, key, t, start)
  IN  IF r.ok THEN [rate_limits EXCEPT ![<<name, key>>] = r.st] ELSE rate_limits

\* ------------------------------------------------------------------ Init
NoAddress == <<"", -1>>
NoReturn == [address |-> NoAddress, age |-> "old", amount_btc |-> 0]

\* how a handler step ended: the handler, whether the address has a row and the
\* caller's session is the row's, the status the blockchain probe returned, what
\* the handler returned or that it threw and why, and the counts the cleanup
\* returned
NoCounts == [markedExpiredInitialized |-> 0, markedExpiredPending |-> 0,
             deletedConfirmed |-> 0, deletedOldExpired |-> 0]
NoOutcome == [op |-> "none", found |-> FALSE, owned |-> FALSE, probe |-> "none",
              result |-> "none", reason |-> "none", counts |-> NoCounts]
Outcome(op, found, owned, probe, result, reason) ==
  [op |-> op, found |-> found, owned |-> owned, probe |-> probe,
   result |-> result, reason |-> reason, counts |-> NoCounts]

IdleGen == [pc |-> "idle", session_id |-> "", amount |-> 0, metadata |-> NoMeta,
            btcPrice |-> 0, amount_btc |-> 0, derivation_index |-> -1,
            address |-> NoAddress, fresh |-> FALSE,
            limited |-> FALSE, limit_ok |-> FALSE, prev |-> NoAddress,
            within |-> FALSE,
            after10 |-> FALSE, seen_max |-> -1]

IdleChk == [pc |-> "idle", session_id |-> "", address |-> NoAddress,
            amount_usd |-> 0]

IdleMon == [pc |-> "idle", expected_amount_btc |-> 0, txid |-> "",
            exchange_rate |-> 0, metadata |-> NoMeta, amount_btc |-> 0]

NoTx == [seen |-> FALSE, amount_btc |-> 0, confirmations |-> 0]

\* results of the probe; null is what an explorer function returns on failure
NullResult == [status |-> "null", tx_hash |-> "", amount_btc |-> 0,
               confirmations |-> 0]
NoPayment == [status |-> "no_payment", tx_hash |-> "", amount_btc |-> 0,
              confirmations |-> 0]
ApiFailed == [status |-> "api_failed", tx_hash |-> "", amount_btc |-> 0,
              confirmations |-> 0]

NoProbe == [index |-> -1, network |-> "none", http |-> AllUp,
            result |-> [asked |-> <<>>, answer |-> NullResult]]

NoFetch == [answers |-> <<>>, result |-> [ok |-> FALSE, price |-> 0]]

Init ==
  /\ now = 0
  /\ bitcoin_config = -1
  /\ pending_bitcoin_payments = <<>>
  /\ donations = <<>>
  /\ rate_limits = [k \in {"generateAddress", "checkPayment"} \X Sessions |-> NoLimit]
  /\ scheduled = {}
  /\ chain = [i \in Indices |-> NoTx]
  /\ gen = [g \in GenIds |-> IdleGen]
  /\ chk = [c \in ChkIds |-> IdleChk]
  /\ mon = [i \in Indices |-> IdleMon]
  /\ last_return = [k \in Keys |-> NoReturn]
  /\ max_returned = -1
  /\ cdfp = [i \in Indices |-> [calls |-> 0, trues |-> 0]]
  /\ outcome = NoOutcome
  /\ probed = NoProbe
  /\ fetched = NoFetch

\* ------------------------------------------------------------------ time
\* The clock moves from one instant of interest to a later one; a handler
\* runs to completion between two instants, so time advances only while no
\* invocation is in flight.
Quiescent ==
  /\ \A g \in GenIds : gen[g].pc = "idle"
  /\ \A c \in ChkIds : chk[c].pc = "idle"
  /\ \A i \in Indices : mon[i].pc = "idle"

Advance(times) ==
  /\ Quiescent
  /\ \E t \in times :
       /\ t > now
       /\ now' = t
       /\ last_return' = [k \in Keys |->
            [last_return[k] EXCEPT !.age =
               IF last_return[k].age = "new" /\ t - now = monitorDelay
               THEN "10s" ELSE "old"]]
  /\ UNCHANGED <<bitcoin_config, pending_bitcoin_payments, donations,
                 rate_limits, scheduled, chain, gen, chk, mon,
                 max_returned, cdfp, outcome, probed, fetched>>

\* --------------------------------------------------- pending payment store
\* getNextDerivationIndex whose lazily created row starts at 0
getNextDerivationIndex_zero(config) ==
  IF config = -1
  THEN [value |-> 0, returned |-> 0]
  ELSE [value |-> config + 1, returned |-> config]

\* getNextDerivationIndex that patches the row with the value it read
getNextDerivationIndex_stuck(config) ==
  IF config = -1
  THEN [value |-> 1, returned |-> 0]
  ELSE [value |-> config, returned |-> config]

\* getNextDerivationIndex whose first call hands out index 1
getNextDerivationIndex_fromOne(config) ==
  IF config = -1
  THEN [value |-> 2, returned |-> 1]
  ELSE [value |-> config + 1, returned |-> config]

\* getNextDerivationIndex: read-increment of the counter row, created lazily
getNextDerivationIndex(config) ==
  IF config = -1
  THEN [value |-> 1, returned |-> 0]
  ELSE [value |-> config + 1, returned |-> config]

\* checkExistingPaymentSession: the oldest row of (session_id, amount), if unexpired
checkExistingPaymentSession(session_id, amount) ==
  LET i == RowBySessionAmount(session_id, amount)
  IN  IF i # 0 /\ pending_bitcoin_payments[i].expires_at > now THEN i ELSE 0

\* createPendingBitcoinPayment: the inserted row
NewPending(session_id, address, amount_btc, amount_usd, rate, index, metadata) ==
  [session_id |-> session_id, address |-> address,
   expected_amount_btc |-> amount_btc, expected_amount_usd |-> amount_usd,
   exchange_rate |-> rate, derivation_index |-> index, metadata |-> metadata,
   status |-> "initialized", txid |-> "", detected_at |-> -1,
   has_job |-> FALSE, expires_at |-> now + paymentLifetime]

\* a monitorSinglePayment job as scheduler.runAfter(10 s, ...) enqueues it
Job(address, expected_amount_btc, derivation_index) ==
  [address |-> address, expected_amount_btc |-> expected_amount_btc,
   derivation_index |-> derivation_index, run_at |-> now + monitorDelay]

\* ------------------------------------------------- generateBitcoinAddress
\* an invocation ends with an error: its slot is free again
Fail(g) ==
  /\ gen' = [gen EXCEPT ![g] = IdleGen]
  /\ UNCHANGED <<last_return, max_returned>>

\* an invocation returns {address, amount_btc, derivation_index, ...}
Return(g, address, derivation_index, amount_btc) ==
  /\ gen' = [gen EXCEPT ![g] = IdleGen]
  /\ last_return' = [last_return EXCEPT ![<<gen[g].session_id, gen[g].amount>>] =
                       [address |-> address, age |-> "new",
                        amount_btc |-> amount_btc]]
  /\ max_returned' = IF derivation_index > max_returned
                     THEN derivation_index ELSE max_returned

\* the row an address was handed out for is still unexpired
Unexpired(address) ==
  LET i == RowByAddress(address)
  IN  i # 0 /\ now < pending_bitcoin_payments[i].expires_at

\* validation and rateLimiter.limit (its {ok, retryAfter} is not inspected)
GenStart(g) ==
  /\ gen[g].pc = "idle"
  /\ \E session_id \in Sessions, amount \in Amounts :
       LET prev == IF amount = 0 THEN NoReturn
                   ELSE last_return[<<session_id, amount>>]
           call == [IdleGen EXCEPT !.session_id = session_id, !.amount = amount,
                      !.metadata = MetaOf(session_id), !.prev = prev.address,
                      !.within = Unexpired(prev.address),
                      !.after10 = (prev.age = "10s")]
       IN  IF ~validDonationAmount(amount)
           THEN /\ UNCHANGED <<gen, rate_limits>>
           ELSE /\ gen' = [gen EXCEPT ![g] =
                    [call EXCEPT !.pc = "lookup", !.limited = TRUE,
                                 !.limit_ok = LimitResult("generateAddress",
                                                          session_id, now, now).ok]]
                /\ rate_limits' = LimitState("generateAddress", session_id, now, now)
  /\ UNCHANGED <<now, bitcoin_config, pending_bitcoin_payments,
                 donations, scheduled, chain, chk, mon,
                 last_return, max_returned, cdfp, outcome, probed, fetched>>

\* getBtcPrice (one of prices, or 0: it throws), then
\* checkExistingPaymentSession; an existing session returns
GenLookupAt(g, prices) ==
  /\ gen[g].pc = "lookup"
  /\ \E btcPrice \in prices \cup {0} :
       IF btcPrice = 0
       THEN Fail(g)
       ELSE LET amount_btc == BtcOf(gen[g].amount, btcPrice)
                i == checkExistingPaymentSession(gen[g].session_id, gen[g].amount)
            IN  IF i # 0
                THEN Return(g, pending_bitcoin_payments[i].address,
                            pending_bitcoin_payments[i].derivation_index,
                            amount_btc)
                ELSE /\ gen' = [gen EXCEPT ![g].pc = "index",
                                           ![g].btcPrice = btcPrice,
                                           ![g].amount_btc = amount_btc]
                     /\ UNCHANGED <<last_return, max_returned>>
  /\ UNCHANGED <<now, bitcoin_config, pending_bitcoin_payments,
                 donations, rate_limits, scheduled, chain, chk, mon,
                 cdfp, outcome, probed, fetched>>

GenLookup(g) == GenLookupAt(g, Prices)

\* getNextDerivationIndex, then deriveBip84Address
GenNextIndex(g) ==
  /\ gen[g].pc = "index"
  /\ bitcoin_config < MaxIndex
  /\ LET r == getNextDerivationIndex(bitcoin_config)
     IN  /\ bitcoin_config' = r.value
         /\ gen' = [gen EXCEPT ![g].pc = "create",
                               ![g].derivation_index = r.returned,
                               ![g].address = deriveBip84Address(r.returned, Network),
                               ![g].fresh = TRUE,
                               ![g].seen_max = max_returned]
  /\ UNCHANGED <<now, pending_bitcoin_payments, donations,
                 rate_limits, scheduled, chain, chk, mon,
                 last_return, max_returned, cdfp, outcome, probed, fetched>>

\* createPendingBitcoinPayment
GenCreatePending(g) ==
  /\ gen[g].pc = "create"
  /\ pending_bitcoin_payments' = Append(pending_bitcoin_payments,
       NewPending(gen[g].session_id, gen[g].address, gen[g].amount_btc,
                  gen[g].amount, gen[g].btcPrice, gen[g].derivation_index,
                  gen[g].metadata))
  /\ gen' = [gen EXCEPT ![g].pc = "schedule"]
  /\ UNCHANGED <<now, bitcoin_config, donations, rate_limits,
                 scheduled, chain, chk, mon, last_return, max_returned,
                 cdfp, outcome, probed, fetched>>

\* scheduler.runAfter(10 s, monitorSinglePayment), updatePendingPaymentJobId, return
GenSchedule(g) ==
  /\ gen[g].pc = "schedule"
  /\ scheduled' = scheduled \cup
       {Job(gen[g].address, gen[g].amount_btc, gen[g].derivation_index)}
  /\ LET i == RowByAddress(gen[g].address)
     IN  IF i = 0
         THEN /\ Fail(g)
              /\ UNCHANGED pending_bitcoin_payments
         ELSE /\ pending_bitcoin_payments' =
                   [pending_bitcoin_payments EXCEPT ![i].has_job = TRUE]
              /\ Return(g, gen[g].address, gen[g].derivation_index,
                        gen[g].amount_btc)
  /\ UNCHANGED <<now, bitcoin_config, donations, rate_limits, chain,
                 chk, mon, cdfp, outcome, probed, fetched>>

\* deriveBip84Address or createPendingBitcoinPayment throws after the counter
\* was bumped: the catch rethrows, the index is lost
GenAbort(g) ==
  /\ gen[g].pc = "create"
  /\ Fail(g)
  /\ UNCHANGED <<now, bitcoin_config, pending_bitcoin_payments,
                 donations, rate_limits, scheduled, chain, chk, mon,
                 cdfp, outcome, probed, fetched>>

GenerateAddress ==
  \E g \in GenIds :
    \/ GenStart(g) \/ GenLookup(g) \/ GenNextIndex(g)
    \/ GenCreatePending(g) \/ GenSchedule(g)

\* ------------------------------------------------------------- blockchain
\* the donor broadcasts one transaction to a handed-out address
Pay(i) ==
  /\ RowByAddress(deriveBip84Address(i, Network)) # 0
  /\ ~chain[i].seen
  /\ \E amount_btc \in PaidAmounts(
          pending_bitcoin_payments[RowByAddress(deriveBip84Address(i, Network))]
            .expected_amount_btc) :
       chain' = [chain EXCEPT ![i] = [seen |-> TRUE, amount_btc |-> amount_btc,
                                      confirmations |-> 0]]
  /\ UNCHANGED <<now, bitcoin_config, pending_bitcoin_payments,
                 donations, rate_limits, scheduled, gen, chk, mon,
                 last_return, max_returned, cdfp, outcome, probed, fetched>>

\* the donor broadcasts a transaction whose amount is at, just inside, just
\* outside or beyond the tolerance around the expected amount
PayNear(i) ==
  /\ RowByAddress(deriveBip84Address(i, Network)) # 0
  /\ ~chain[i].seen
  /\ \E amount_btc \in NearAmounts(
          pending_bitcoin_payments[RowByAddress(deriveBip84Address(i, Network))]
            .expected_amount_btc) :
       chain' = [chain EXCEPT ![i] = [seen |-> TRUE, amount_btc |-> amount_btc,
                                      confirmations |-> 0]]
  /\ UNCHANGED <<now, bitcoin_config, pending_bitcoin_payments,
                 donations, rate_limits, scheduled, gen, chk, mon,
                 last_return, max_returned, cdfp, outcome, probed, fetched>>

\* the donor broadcasts a transaction of exactly the amount that
\* generateBitcoinAddress last returned with the address
PayReturned(i) ==
  /\ RowByAddress(deriveBip84Address(i, Network)) # 0
  /\ ~chain[i].seen
  /\ \E k \in Keys :
       /\ last_return[k].address = deriveBip84Address(i, Network)
       /\ chain' = [chain EXCEPT ![i] = [seen |-> TRUE,
                                         amount_btc |-> last_return[k].amount_btc,
                                         confirmations |-> 0]]
  /\ UNCHANGED <<now, bitcoin_config, pending_bitcoin_payments,
                 donations, rate_limits, scheduled, gen, chk, mon,
                 last_return, max_returned, cdfp, outcome, probed, fetched>>

\* a block is mined on top of the transaction
Mine(i) ==
  /\ chain[i].seen
  /\ chain[i].confirmations < requiredConfirmations
  /\ chain' = [chain EXCEPT ![i].confirmations = @ + 1]
  /\ UNCHANGED <<now, bitcoin_config, pending_bitcoin_payments,
                 donations, rate_limits, scheduled, gen, chk, mon,
                 last_return, max_returned, cdfp, outcome, probed, fetched>>

\* getCurrentBlockHeight returns 0 when its request fails, and
\* calculateConfirmations returns 0 for height 0 or a transaction without block
calculateConfirmations(height, tx) ==
  IF height # "ok" THEN 0 ELSE tx.confirmations

\* the result for a transaction found with so many confirmations
FoundTx(tx, confirmations) ==
  [status |-> IF confirmations = 0 THEN "pending" ELSE "paid",
   tx_hash |-> "tx", amount_btc |-> tx.amount_btc,
   confirmations |-> confirmations]

\* checkMempoolSpace (primary): null when the address request fails other than
\* by 404 or when the request of the transaction list fails
checkMempoolSpace(http, tx) ==
  IF http.mempool_address \in {"500", "throws"} THEN NullResult
  ELSE IF http.mempool_address = "404" THEN NoPayment
  ELSE IF ~tx.seen THEN NoPayment
  ELSE IF http.mempool_txs # "ok" THEN NullResult
  ELSE FoundTx(tx, calculateConfirmations(http.height, tx))

\* a checkBlockstream that fails when the transaction endpoint answers an error
checkBlockstream_strict(http, tx) ==
  IF http.blockstream_address \in {"500", "throws"} THEN NullResult
  ELSE IF http.blockstream_address = "404" THEN NoPayment
  ELSE IF ~tx.seen THEN NoPayment
  ELSE IF http.blockstream_tx # "ok" THEN NullResult
  ELSE FoundTx(tx, calculateConfirmations(http.height, tx))

\* checkBlockstream (fallback): an error status of the transaction endpoint
\* gives pending with 0 confirmations; a request that throws gives null
checkBlockstream(http, tx) ==
  IF http.blockstream_address \in {"500", "throws"} THEN NullResult
  ELSE IF http.blockstream_address = "404" THEN NoPayment
  ELSE IF ~tx.seen THEN NoPayment
  ELSE IF http.blockstream_tx = "500" THEN FoundTx(tx, 0)
  ELSE IF http.blockstream_tx = "throws" THEN NullResult
  ELSE FoundTx(tx, calculateConfirmations(http.height, tx))

\* a checkBlockchainPayment that asks the fallback on testnet too
checkBlockchainPaymentWith_testnetFallback(isTestnet, http, tx) ==
  LET mempoolResult == checkMempoolSpace(http, tx)
      blockstreamResult == checkBlockstream(http, tx)
  IN  IF mempoolResult # NullResult
      THEN [asked |-> <<"mempool.space">>, answer |-> mempoolResult]
      ELSE [asked |-> <<"mempool.space", "blockstream.info">>,
            answer |-> IF blockstreamResult # NullResult
                       THEN blockstreamResult ELSE ApiFailed]

\* checkBlockchainPayment for a network and for what the explorers answer:
\* the explorers asked, in order, and the result returned
checkBlockchainPaymentWith(isTestnet, http, tx) ==
  LET mempoolResult == checkMempoolSpace(http, tx)
      blockstreamResult == checkBlockstream(http, tx)
  IN  IF isTestnet
      THEN [asked |-> <<"mempool.space">>,
            answer |-> IF mempoolResult # NullResult
                       THEN mempoolResult ELSE ApiFailed]
      ELSE IF mempoolResult # NullResult
      THEN [asked |-> <<"mempool.space">>, answer |-> mempoolResult]
      ELSE [asked |-> <<"mempool.space", "blockstream.info">>,
            answer |-> IF blockstreamResult # NullResult
                       THEN blockstreamResult ELSE ApiFailed]

\* checkBlockchainPayment in the handlers: the explorers all answer or all fail
checkBlockchainPayment(i, api_ok) ==
  checkBlockchainPaymentWith(Network = "testnet",
                             IF api_ok THEN AllUp ELSE AllDown,
                             chain[i]).answer

\* one call of checkBlockchainPayment for the address of a row, on either
\* network, with any combination of answers of the explorers' endpoints
ProbeCall ==
  /\ \E i \in Indices, network \in Networks, http \in Https :
       /\ RowByAddress(deriveBip84Address(i, Network)) # 0
       /\ probed' = [index |-> i, network |-> network, http |-> http,
                     result |-> checkBlockchainPaymentWith(
                                  network = "testnet", http, chain[i])]
  /\ UNCHANGED <<now, bitcoin_config, pending_bitcoin_payments,
                 donations, rate_limits, scheduled, chain, gen, chk, mon,
                 last_return, max_returned, cdfp, outcome, fetched>>

\* ------------------------------------------------------------ price oracle
\* prices.sort((a, b) => a - b)
RECURSIVE Insert(_, _)
Insert(sorted, price) ==
  IF sorted = <<>> THEN <<price>>
  ELSE IF price <= Head(sorted) THEN <<price>> \o sorted
  ELSE <<Head(sorted)>> \o Insert(Tail(sorted), price)

RECURSIVE SortAscending(_)
SortAscending(prices) ==
  IF prices = <<>> THEN <<>>
  ELSE Insert(SortAscending(Tail(prices)), Head(prices))

\* the prices pushed by the requests that got a quote
RECURSIVE PushedPrices(_)
PushedPrices(answers) ==
  IF answers = <<>> THEN <<>>
  ELSE (IF Head(answers).ok THEN <<Head(answers).price>> ELSE <<>>)
         \o PushedPrices(Tail(answers))

\* a median that takes the upper of the two middle values
fetchBtcPriceInternal_upperMiddle(answers) ==
  LET prices == SortAscending(PushedPrices(answers))
      mid == Len(prices) \div 2
  IN  IF Len(prices) > 0
      THEN [ok |-> TRUE, price |-> prices[mid + 1]]
      ELSE [ok |-> FALSE, price |-> 0]

\* fetchBtcPriceInternal: prices[mid] of the 0-based source array is
\* prices[mid + 1] here; a result that is not ok is the thrown error
fetchBtcPriceInternal(answers) ==
  LET prices == SortAscending(PushedPrices(answers))
      mid == Len(prices) \div 2
  IN  IF Len(prices) > 0
      THEN [ok |-> TRUE,
            price |-> IF Len(prices) % 2 = 0
                      THEN (prices[mid] + prices[mid + 1]) \div 2
                      ELSE prices[mid + 1]]
      ELSE [ok |-> FALSE, price |-> 0]

\* one fetch of the price, with any combination of answers of the exchanges
FetchPrice ==
  /\ \E answers \in [1 .. Len(exchangeApis) -> ExchangeAnswers] :
       fetched' = [answers |-> answers,
                   result |-> fetchBtcPriceInternal(answers)]
  /\ UNCHANGED <<now, bitcoin_config, pending_bitcoin_payments,
                 donations, rate_limits, scheduled, chain, gen, chk, mon,
                 last_return, max_returned, cdfp, outcome, probed>>

\* a test that takes a transaction one block short of the threshold
hasEnoughConfirmations_oneShort(result) ==
  result.confirmations >= requiredConfirmations - 1

\* result.confirmations >= requiredConfirmations
hasEnoughConfirmations(result) ==
  result.confirmations >= requiredConfirmations

\* an amount test that rejects a payment short by exactly the tolerance
Underpayment_inclusive(received, expected) ==
  LET difference == IF received >= expected THEN received - expected
                    ELSE expected - received
  IN  difference >= btcAmountTolerance /\ received < expected

\* Math.abs(received - expected) > btcAmountTolerance && received < expected
Underpayment(received, expected) ==
  LET difference == IF received >= expected THEN received - expected
                    ELSE expected - received
  IN  difference > btcAmountTolerance /\ received < expected

\* ------------------------------------------------------ store mutations
\* updatePendingPaymentStatus: unconditional patch of the status
updatePendingPaymentStatus(rows, address, status) ==
  LET i == RowByAddress(address)
  IN  IF i = 0 THEN rows ELSE [rows EXCEPT ![i].status = status]

\* an updatePendingPaymentWithTx without the test of the status
updatePendingPaymentWithTx_anyStatus(rows, address, txid) ==
  LET i == RowByAddress(address)
  IN  IF i = 0 THEN rows
      ELSE [rows EXCEPT ![i].txid = txid, ![i].detected_at = now,
                        ![i].status = IF rows[i].status = "initialized"
                                      THEN "pending" ELSE rows[i].status]

\* updatePendingPaymentWithTx
updatePendingPaymentWithTx(rows, address, txid) ==
  LET i == RowByAddress(address)
  IN  IF i = 0 THEN rows
      ELSE IF rows[i].status \notin {"initialized", "pending"} THEN rows
      ELSE [rows EXCEPT ![i].txid = txid, ![i].detected_at = now,
                        ![i].status = IF rows[i].status = "initialized"
                                      THEN "pending" ELSE rows[i].status]

\* createDonationFromPayment that inserts without looking for an existing donation
createDonationFromPayment_unchecked(address, amount_usd, display_name, message) ==
  [created |-> TRUE,
   donations |-> Append(donations,
     [amount |-> amount_usd, display_name |-> display_name,
      payment_id |-> address, payment_method |-> "bitcoin",
      message |-> message])]

\* createDonationFromPayment that rewrites the existing donation before
\* returning false
createDonationFromPayment_overwrite(address, amount_usd, display_name, message) ==
  IF DonationByPaymentId(address) # 0
  THEN [created |-> FALSE,
        donations |-> [donations EXCEPT ![DonationByPaymentId(address)] =
                         [@ EXCEPT !.amount = amount_usd,
                                   !.display_name = display_name,
                                   !.message = message]]]
  ELSE [created |-> TRUE,
        donations |-> Append(donations,
          [amount |-> amount_usd, display_name |-> display_name,
           payment_id |-> address, payment_method |-> "bitcoin",
           message |-> message])]

\* createDonationFromPayment that inserts nothing
createDonationFromPayment_noInsert(address, amount_usd, display_name, message) ==
  [created |-> FALSE, donations |-> donations]

\* createDonationFromPayment: [created, donations afterwards]
createDonationFromPayment(address, amount_usd, display_name, message) ==
  IF DonationByPaymentId(address) # 0
  THEN [created |-> FALSE, donations |-> donations]
  ELSE [created |-> TRUE,
        donations |-> Append(donations,
          [amount |-> amount_usd, display_name |-> display_name,
           payment_id |-> address, payment_method |-> "bitcoin",
           message |-> message])]

\* history of createDonationFromPayment invocations per address, counted up
\* to MaxCalls
Counted(address, created) ==
  cdfp' = [cdfp EXCEPT ![IndexOf(address)] =
             [calls |-> Min(@.calls + 1, MaxCalls),
              trues |-> Min(@.trues + (IF created THEN 1 ELSE 0), MaxCalls)]]

\* ---------------------------------------------------- monitorSinglePayment
\* an early exit that stops for a missing or confirmed row only
MonitorStops_confirmedOnly(rows, r) ==
  r = 0 \/ rows[r].status = "confirmed"

\* the early exits: no row, or a row already confirmed or expired
MonitorStops(rows, r) ==
  r = 0 \/ rows[r].status \in {"confirmed", "expired"}

\* an expiry check that never fires
MonitorTimedOut_never(row) == FALSE

\* an expiry check that waits for the retention of expired rows as well
MonitorTimedOut_afterRetention(row) ==
  now > row.expires_at + expiredRetention

\* the expiry check: Date.now() > pendingPayment.expires_at
MonitorTimedOut(row) == now > row.expires_at

\* a probe that counts as nothing paid only when the API answered
NothingPaid_answered(result) == result.status = "no_payment"

\* the probe found no payment or could not ask
NothingPaid(result) == result.status \in {"api_failed", "no_payment"}

\* getPendingPaymentByAddressInternal, the early exits and the expiry check
MonStart(job) ==
  LET i == IndexOf(job.address)
      r == RowByAddress(job.address)
  IN  /\ job \in scheduled
      /\ now >= job.run_at
      /\ mon[i].pc = "idle"
      /\ scheduled' = scheduled \ {job}
      /\ IF MonitorStops(pending_bitcoin_payments, r)
         THEN /\ UNCHANGED mon
              /\ outcome' = Outcome("monitorSinglePayment", r # 0, r # 0,
                     "none", "stopped",
                     IF r = 0 THEN "deleted"
                     ELSE pending_bitcoin_payments[r].status)
         ELSE /\ mon' = [mon EXCEPT ![i] =
                [IdleMon EXCEPT
                   !.pc = IF MonitorTimedOut(pending_bitcoin_payments[r])
                          THEN "set_expired" ELSE "probe",
                   !.expected_amount_btc = job.expected_amount_btc,
                   !.txid = pending_bitcoin_payments[r].txid,
                   !.exchange_rate = pending_bitcoin_payments[r].exchange_rate,
                   !.metadata = pending_bitcoin_payments[r].metadata]]
              /\ UNCHANGED outcome
      /\ UNCHANGED <<now, bitcoin_config, pending_bitcoin_payments,
                     donations, rate_limits, chain, gen, chk,
                     last_return, max_returned, cdfp, probed, fetched>>

\* checkBlockchainPayment and the dispatch on its result; the branches that
\* only reschedule do so here
MonProbe(i) ==
  /\ mon[i].pc = "probe"
  /\ \E api_ok \in BOOLEAN :
       LET result == checkBlockchainPayment(i, api_ok)
           address == deriveBip84Address(i, Network)
           again == Job(address, mon[i].expected_amount_btc, i)
           Ended(how) == outcome' = Outcome("monitorSinglePayment", TRUE, TRUE,
                                            result.status, how, "none")
       IN  IF NothingPaid(result)
           THEN /\ scheduled' = scheduled \cup {again}
                /\ mon' = [mon EXCEPT ![i] = IdleMon]
                /\ Ended("rescheduled")
           ELSE IF result.status = "pending"
                   \/ ~hasEnoughConfirmations(result)
           THEN IF mon[i].txid # result.tx_hash
                THEN /\ mon' = [mon EXCEPT ![i].pc = "attach"]
                     /\ UNCHANGED scheduled
                     /\ Ended("attach")
                ELSE /\ scheduled' = scheduled \cup {again}
                     /\ mon' = [mon EXCEPT ![i] = IdleMon]
                     /\ Ended("rescheduled")
           ELSE IF Underpayment(result.amount_btc, mon[i].expected_amount_btc)
           THEN /\ mon' = [mon EXCEPT ![i].pc = "set_expired"]
                /\ UNCHANGED scheduled
                /\ Ended("underpaid")
           ELSE /\ mon' = [mon EXCEPT ![i].pc = "donate",
                                      ![i].amount_btc = result.amount_btc]
                /\ UNCHANGED scheduled
                /\ Ended("donate")
  /\ UNCHANGED <<now, bitcoin_config, pending_bitcoin_payments,
                 donations, rate_limits, chain, gen, chk,
                 last_return, max_returned, cdfp, probed, fetched>>

\* the handler has no try/catch: an error thrown by one of its calls ends the
\* invocation where it is, and nothing schedules the next one
MonCrash(i) ==
  /\ mon[i].pc # "idle"
  /\ mon' = [mon EXCEPT ![i] = IdleMon]
  /\ outcome' = Outcome("monitorSinglePayment", TRUE, TRUE, "none", "throws",
                        "unexpected")
  /\ UNCHANGED <<now, bitcoin_config, pending_bitcoin_payments,
                 donations, rate_limits, scheduled, chain, gen, chk,
                 last_return, max_returned, cdfp, probed, fetched>>

\* an attachment of the transaction after which the Monitor is not scheduled
\* again
MonAttach_noReschedule(i) ==
  /\ mon[i].pc = "attach"
  /\ pending_bitcoin_payments' = updatePendingPaymentWithTx(
       pending_bitcoin_payments, deriveBip84Address(i, Network), "tx")
  /\ mon' = [mon EXCEPT ![i] = IdleMon]
  /\ UNCHANGED <<now, bitcoin_config, donations, rate_limits, scheduled, chain,
                 gen, chk, last_return, max_returned, cdfp, outcome, probed, fetched>>

\* updatePendingPaymentWithTx, then scheduler.runAfter
MonAttach(i) ==
  /\ mon[i].pc = "attach"
  /\ pending_bitcoin_payments' = updatePendingPaymentWithTx(
       pending_bitcoin_payments, deriveBip84Address(i, Network), "tx")
  /\ scheduled' = scheduled \cup
       {Job(deriveBip84Address(i, Network), mon[i].expected_amount_btc, i)}
  /\ mon' = [mon EXCEPT ![i] = IdleMon]
  /\ UNCHANGED <<now, bitcoin_config, donations, rate_limits, chain,
                 gen, chk, last_return, max_returned, cdfp, outcome, probed, fetched>>

\* updatePendingPaymentStatus(address, 'expired') on timeout or underpayment
MonSetExpired(i) ==
  /\ mon[i].pc = "set_expired"
  /\ pending_bitcoin_payments' = updatePendingPaymentStatus(
       pending_bitcoin_payments, deriveBip84Address(i, Network), "expired")
  /\ mon' = [mon EXCEPT ![i] = IdleMon]
  /\ outcome' = Outcome("monitorSinglePayment", TRUE, TRUE, "none", "expired",
                        "none")
  /\ UNCHANGED <<now, bitcoin_config, donations, rate_limits,
                 scheduled, chain, gen, chk, last_return,
                 max_returned, cdfp, probed, fetched>>

\* createDonationFromPayment at the rate stored on the row
MonCreateDonation(i) ==
  /\ mon[i].pc = "donate"
  /\ LET address == deriveBip84Address(i, Network)
         r == createDonationFromPayment(address,
                UsdOf(mon[i].amount_btc, mon[i].exchange_rate),
                getDisplayName(mon[i].metadata, "Anonymous"),
                mon[i].metadata.message)
     IN  /\ donations' = r.donations
         /\ Counted(address, r.created)
         /\ mon' = [mon EXCEPT ![i].pc = "confirm"]
  /\ UNCHANGED <<now, bitcoin_config, pending_bitcoin_payments,
                 rate_limits, scheduled, chain, gen, chk,
                 last_return, max_returned, outcome, probed, fetched>>

\* updatePendingPaymentStatus(address, 'confirmed')
MonConfirm(i) ==
  /\ mon[i].pc = "confirm"
  /\ pending_bitcoin_payments' = updatePendingPaymentStatus(
       pending_bitcoin_payments, deriveBip84Address(i, Network), "confirmed")
  /\ mon' = [mon EXCEPT ![i] = IdleMon]
  /\ UNCHANGED <<now, bitcoin_config, donations, rate_limits,
                 scheduled, chain, gen, chk, last_return,
                 max_returned, cdfp, outcome, probed, fetched>>

Monitor ==
  \/ \E job \in scheduled : MonStart(job)
  \/ \E i \in Indices :
       \/ MonProbe(i) \/ MonAttach(i) \/ MonSetExpired(i)
       \/ MonCreateDonation(i) \/ MonConfirm(i) \/ MonCrash(i)

\* ----------------------------------------------------- checkBitcoinPayment
\* for the history: the address has a row, and the row is the session's
Found(address) == RowByAddress(address) # 0
OwnedBy(address, session_id) ==
  /\ Found(address)
  /\ pending_bitcoin_payments[RowByAddress(address)].session_id = session_id

\* validateSessionOwnsAddress without the comparison of the sessions
validateSessionOwnsAddress_anyone(session_id, address) ==
  LET i == RowByAddress(address)
  IN  /\ i # 0
      /\ ~(/\ pending_bitcoin_payments[i].status = "initialized"
           /\ pending_bitcoin_payments[i].expires_at <= now)

\* validateSessionOwnsAddress: TRUE when it does not throw
validateSessionOwnsAddress(session_id, address) ==
  LET i == RowByAddress(address)
  IN  /\ i # 0
      /\ pending_bitcoin_payments[i].session_id = session_id
      /\ ~(/\ pending_bitcoin_payments[i].status = "initialized"
           /\ pending_bitcoin_payments[i].expires_at <= now)

\* validateBitcoinAddress, validateSessionOwnsAddress, rateLimiter.limit
\* (its {ok, retryAfter} is not inspected).  A call that fails the validation
\* throws before the limiter is asked.  The arguments expected_btc_amount and
\* metadata are drawn where the handler first reads them.  A call takes the
\* first free invocation slot.
ChkStart(c) ==
  /\ chk[c].pc = "idle"
  /\ \A d \in ChkIds : d < c => chk[d].pc # "idle"
  /\ \E address \in Addresses, session_id \in Sessions :
       IF validateSessionOwnsAddress(session_id, address)
       THEN /\ chk' = [chk EXCEPT ![c] =
                 [IdleChk EXCEPT !.pc = "probe", !.session_id = session_id,
                                 !.address = address]]
            /\ rate_limits' = LimitState("checkPayment", session_id, now, now)
            /\ UNCHANGED outcome
       ELSE /\ outcome' = Outcome("checkBitcoinPayment", Found(address),
                            OwnedBy(address, session_id), "none", "throws",
                            IF ~Found(address) THEN "not_found"
                            ELSE IF ~OwnedBy(address, session_id)
                            THEN "not_owned" ELSE "expired")
            /\ UNCHANGED <<chk, rate_limits>>
  /\ UNCHANGED <<now, bitcoin_config, pending_bitcoin_payments,
                 donations, scheduled, chain, gen, mon, last_return,
                 max_returned, cdfp, probed, fetched>>

\* a finalization that prices the payment at the rate stored on the row
PriceForCheck_stored(btcPrice, exchange_rate) == exchange_rate

\* the price checkBitcoinPayment finalizes with: the one getBtcPrice returns;
\* the row's exchange_rate is not read
PriceForCheck(btcPrice, exchange_rate) == btcPrice

\* checkBlockchainPayment, the early returns, the underpayment check against
\* the caller's expected_btc_amount, getBtcPrice (0: no source answered, it
\* throws) and validateDonationAmount
ChkProbe(c) ==
  /\ chk[c].pc = "probe"
  /\ \E api_ok \in BOOLEAN, oracle \in CheckPrices \cup {0},
        expected_btc_amount \in ExpectedArgs :
       LET result == checkBlockchainPayment(IndexOf(chk[c].address), api_ok)
           r == RowByAddress(chk[c].address)
           btcPrice == PriceForCheck(oracle,
                         IF r = 0 THEN 0
                         ELSE pending_bitcoin_payments[r].exchange_rate)
           amount_usd == UsdOf(result.amount_btc, btcPrice)
           Ended(how, why) ==
             /\ chk' = [chk EXCEPT ![c] = IdleChk]
             /\ outcome' = Outcome("checkBitcoinPayment", Found(chk[c].address),
                             OwnedBy(chk[c].address, chk[c].session_id),
                             result.status, how, why)
       IN  IF NothingPaid(result)
           THEN Ended("not_paid", "none")
           ELSE IF \/ result.status = "pending"
                   \/ ~hasEnoughConfirmations(result)
           THEN Ended("unconfirmed", "none")
           ELSE IF /\ expected_btc_amount # 0
                   /\ Underpayment(result.amount_btc, expected_btc_amount)
           THEN Ended("throws", "underpayment")
           ELSE IF btcPrice = 0
           THEN Ended("throws", "oracle")
           ELSE IF ~validDonationAmount(amount_usd)
           THEN Ended("throws", "bounds")
           ELSE /\ chk' = [chk EXCEPT ![c].pc = "donate",
                                      ![c].amount_usd = amount_usd]
                /\ UNCHANGED outcome
  /\ UNCHANGED <<now, bitcoin_config, pending_bitcoin_payments,
                 donations, rate_limits, scheduled, chain, gen, mon,
                 last_return, max_returned, cdfp, probed, fetched>>

\* createDonationFromPayment with the display name of the call's metadata
ChkCreateDonation(c) ==
  /\ chk[c].pc = "donate"
  /\ \E metadata \in Metas :
       LET r == createDonationFromPayment(chk[c].address, chk[c].amount_usd,
                  getDisplayName(metadata, "Anonymous"), metadata.message)
       IN  /\ donations' = r.donations
           /\ Counted(chk[c].address, r.created)
           /\ chk' = [chk EXCEPT ![c].pc = "confirm"]
  /\ UNCHANGED <<now, bitcoin_config, pending_bitcoin_payments,
                 rate_limits, scheduled, chain, gen, mon, last_return,
                 max_returned, outcome, probed, fetched>>

\* updatePendingPaymentStatus(address, 'confirmed'), return {paid: true, ...}
ChkConfirm(c) ==
  /\ chk[c].pc = "confirm"
  /\ pending_bitcoin_payments' = updatePendingPaymentStatus(
       pending_bitcoin_payments, chk[c].address, "confirmed")
  /\ chk' = [chk EXCEPT ![c] = IdleChk]
  /\ outcome' = Outcome("checkBitcoinPayment", Found(chk[c].address),
                        OwnedBy(chk[c].address, chk[c].session_id),
                        "paid", "paid", "none")
  /\ UNCHANGED <<now, bitcoin_config, donations, rate_limits,
                 scheduled, chain, gen, mon, last_return, max_returned, cdfp, probed, fetched>>

CheckPayment ==
  \E c \in ChkIds :
    \/ ChkStart(c) \/ ChkProbe(c) \/ ChkCreateDonation(c) \/ ChkConfirm(c)

\* ------------------------------------------------------ markPaymentExpired
\* a markPaymentExpired that also closes a row whose transaction was detected
markPaymentExpired_pendingToo(rows, address, session_id) ==
  LET i == RowByAddress(address)
  IN  IF i = 0
      THEN [rows |-> rows, result |-> "null", reason |-> "not_found"]
      ELSE IF rows[i].session_id # session_id
      THEN [rows |-> rows, result |-> "throws", reason |-> "not_owned"]
      ELSE IF rows[i].status \in {"initialized", "pending"}
      THEN [rows |-> [rows EXCEPT ![i].status = "expired"],
            result |-> "marked", reason |-> "none"]
      ELSE [rows |-> rows, result |-> "null", reason |-> "status"]

\* the public mutation: null without a row, throws for another session's row,
\* patches an initialized row, null otherwise
markPaymentExpired(rows, address, session_id) ==
  LET i == RowByAddress(address)
  IN  IF i = 0
      THEN [rows |-> rows, result |-> "null", reason |-> "not_found"]
      ELSE IF rows[i].session_id # session_id
      THEN [rows |-> rows, result |-> "throws", reason |-> "not_owned"]
      ELSE IF rows[i].status = "initialized"
      THEN [rows |-> [rows EXCEPT ![i].status = "expired"],
            result |-> "marked", reason |-> "none"]
      ELSE [rows |-> rows, result |-> "null", reason |-> "status"]

MarkExpired ==
  /\ \E address \in Addresses, session_id \in Sessions :
       LET r == markPaymentExpired(pending_bitcoin_payments, address, session_id)
       IN  /\ pending_bitcoin_payments' = r.rows
           /\ outcome' = Outcome("markPaymentExpired", Found(address),
                                 OwnedBy(address, session_id), "none",
                                 r.result, r.reason)
  /\ UNCHANGED <<now, bitcoin_config, donations, rate_limits,
                 scheduled, chain, gen, chk, mon, last_return, max_returned,
                 cdfp, probed, fetched>>

\* ------------------------------------------- cleanupExpiredPendingPayments
\* a cleanup that leaves overdue pending rows alone
cleanupExpiredPendingPayments_initializedOnly(rows) ==
  LET marked == [i \in 1 .. Len(rows) |->
                   IF /\ rows[i].status = "initialized"
                      /\ rows[i].expires_at < now
                   THEN [rows[i] EXCEPT !.status = "expired"] ELSE rows[i]]
      ExpiredInitialized(r) == r.status = "initialized" /\ r.expires_at < now
      Confirmed(r) == r.status = "confirmed"
      OldExpired(r) == /\ r.status = "expired"
                       /\ r.expires_at < now - expiredRetention
      Kept(r) == ~Confirmed(r) /\ ~OldExpired(r)
  IN  [rows |-> SelectSeq(marked, Kept),
       counts |-> [markedExpiredInitialized |-> Len(SelectSeq(rows, ExpiredInitialized)),
                   markedExpiredPending |-> 0,
                   deletedConfirmed |-> Len(SelectSeq(marked, Confirmed)),
                   deletedOldExpired |-> Len(SelectSeq(marked, OldExpired))]]

\* a cleanup that never deletes an expired row
cleanupExpiredPendingPayments_keepsExpired(rows) ==
  LET marked == [i \in 1 .. Len(rows) |->
                   IF /\ rows[i].status \in {"initialized", "pending"}
                      /\ rows[i].expires_at < now
                   THEN [rows[i] EXCEPT !.status = "expired"] ELSE rows[i]]
      ExpiredInitialized(r) == r.status = "initialized" /\ r.expires_at < now
      ExpiredPending(r) == r.status = "pending" /\ r.expires_at < now
      Confirmed(r) == r.status = "confirmed"
      Kept(r) == ~Confirmed(r)
  IN  [rows |-> SelectSeq(marked, Kept),
       counts |-> [markedExpiredInitialized |-> Len(SelectSeq(rows, ExpiredInitialized)),
                   markedExpiredPending |-> Len(SelectSeq(rows, ExpiredPending)),
                   deletedConfirmed |-> Len(SelectSeq(marked, Confirmed)),
                   deletedOldExpired |-> 0]]

\* the rows afterwards and the counts returned; the query for old expired rows
\* runs after the patches, so it sees the rows this run has marked
cleanupExpiredPendingPayments(rows) ==
  LET marked == [i \in 1 .. Len(rows) |->
                   IF /\ rows[i].status \in {"initialized", "pending"}
                      /\ rows[i].expires_at < now
                   THEN [rows[i] EXCEPT !.status = "expired"] ELSE rows[i]]
      ExpiredInitialized(r) == r.status = "initialized" /\ r.expires_at < now
      ExpiredPending(r) == r.status = "pending" /\ r.expires_at < now
      Confirmed(r) == r.status = "confirmed"
      OldExpired(r) == /\ r.status = "expired"
                       /\ r.expires_at < now - expiredRetention
      Kept(r) == ~Confirmed(r) /\ ~OldExpired(r)
  IN  [rows |-> SelectSeq(marked, Kept),
       counts |-> [markedExpiredInitialized |-> Len(SelectSeq(rows, ExpiredInitialized)),
                   markedExpiredPending |-> Len(SelectSeq(rows, ExpiredPending)),
                   deletedConfirmed |-> Len(SelectSeq(marked, Confirmed)),
                   deletedOldExpired |-> Len(SelectSeq(marked, OldExpired))]]

\* the hourly cron job; a run that finds nothing to do leaves the tables as
\* they are
CleanupExpired ==
  LET r == cleanupExpiredPendingPayments(pending_bitcoin_payments)
  IN  /\ r.rows # pending_bitcoin_payments
      /\ pending_bitcoin_payments' = r.rows
      /\ outcome' = [NoOutcome EXCEPT !.op = "cleanupExpiredPendingPayments",
                                      !.result = "counts", !.counts = r.counts]
      /\ UNCHANGED <<now, bitcoin_config, donations, rate_limits,
                     scheduled, chain, gen, chk, mon, last_return,
                     max_returned, cdfp, probed, fetched>>

\* --------------------------------------------------------- donation.create
\* the public mutation the Stripe and PayPal webhooks call
CardDonation(payment_id) ==
  [amount |-> 25, display_name |-> "carol", payment_id |-> payment_id,
   payment_method |-> "stripe", message |-> ""]

DonationCreate ==
  /\ \E payment_id \in CreateIds :
       /\ DonationByPaymentId(payment_id) = 0
       /\ donations' = Append(donations, CardDonation(payment_id))
  /\ UNCHANGED <<now, bitcoin_config, pending_bitcoin_payments,
                 rate_limits, scheduled, chain, gen, chk, mon, last_return,
                 max_returned, cdfp, outcome, probed, fetched>>

\* the public queries of the donations table
\* getDonorList: the page, newest first, each donation mapped to PublicDonation
getDonorList ==
  [k \in 1 .. Len(donations) |->
     LET donation == donations[Len(donations) + 1 - k]
     IN  [id |-> Len(donations) + 1 - k,
          display_name |-> IF donation.display_name = "" THEN "Anonymous"
                           ELSE donation.display_name,
          amount |-> donation.amount]]

\* getDonationByPaymentId: the first document of by_payment_id as it is stored,
\* or null (the empty tuple)
getDonationByPaymentId(payment_id) ==
  LET i == DonationByPaymentId(payment_id)
  IN  IF i = 0 THEN <<>>
      ELSE [_id |-> i, amount |-> donations[i].amount,
            display_name |-> donations[i].display_name,
            payment_id |-> donations[i].payment_id,
            payment_method |-> donations[i].payment_method,
            message |-> donations[i].message]

\* ---------------------------------------------------------- specifications
\* address generation, from the empty database
NextGenerate == Advance(GenTimes) \/ GenerateAddress

SpecGenerate == Init /\ [][NextGenerate]_vars

\* address generation in which an invocation may also fail between the
\* counter bump and the insert of its row
NextCounter ==
  \/ Advance(GenTimes)
  \/ GenerateAddress
  \/ \E g \in GenIds : GenAbort(g)

SpecCounter == Init /\ [][NextCounter]_vars

\* payment processing, from the state a card donation and one completed
\* generateBitcoinAddress(50, "s1", Named) at time 0 leave behind
InitPayment ==
  /\ now = 0
  /\ bitcoin_config = 1
  /\ pending_bitcoin_payments =
       <<[NewPending("s1", deriveBip84Address(0, Network), BtcOf(50, 50), 50,
                     50, 0, Named) EXCEPT !.has_job = TRUE]>>
  /\ donations = <<CardDonation(<<"cs", 1>>)>>
  /\ rate_limits = [k \in {"generateAddress", "checkPayment"} \X Sessions |->
                      IF k = <<"generateAddress", "s1">>
                      THEN [value |-> 0, ts |-> 0] ELSE NoLimit]
  /\ scheduled = {Job(deriveBip84Address(0, Network), BtcOf(50, 50), 0)}
  /\ chain = [i \in Indices |-> NoTx]
  /\ gen = [g \in GenIds |-> IdleGen]
  /\ chk = [c \in ChkIds |-> IdleChk]
  /\ mon = [i \in Indices |-> IdleMon]
  /\ last_return = [k \in Keys |->
                      IF k = <<"s1", 50>>
                      THEN [address |-> deriveBip84Address(0, Network),
                            age |-> "new", amount_btc |-> BtcOf(50, 50)]
                      ELSE NoReturn]
  /\ max_returned = 0
  /\ cdfp = [i \in Indices |-> [calls |-> 0, trues |-> 0]]
  /\ outcome = NoOutcome
  /\ probed = NoProbe
  /\ fetched = NoFetch

Blockchain == \E i \in Indices : Pay(i) \/ Mine(i)

NextPayment ==
  \/ Advance(PayTimes)
  \/ Blockchain
  \/ Monitor
  \/ CheckPayment
  \/ MarkExpired
  \/ CleanupExpired
  \/ DonationCreate

SpecPayment == InitPayment /\ [][NextPayment]_vars

\* the probe alone: the address of the row has no transaction, one in the
\* mempool, or one with the required confirmations
InitProbe ==
  /\ now = 0
  /\ bitcoin_config = 1
  /\ pending_bitcoin_payments =
       <<[NewPending("s1", deriveBip84Address(0, Network), BtcOf(50, 50), 50,
                     50, 0, Named) EXCEPT !.has_job = TRUE]>>
  /\ donations = <<>>
  /\ rate_limits = [k \in {"generateAddress", "checkPayment"} \X Sessions |->
                      IF k = <<"generateAddress", "s1">>
                      THEN [value |-> 0, ts |-> 0] ELSE NoLimit]
  /\ scheduled = {Job(deriveBip84Address(0, Network), BtcOf(50, 50), 0)}
  /\ \E confirmations \in {-1, 0, requiredConfirmations} :
       chain = [i \in Indices |->
                  IF i = 0 /\ confirmations >= 0
                  THEN [seen |-> TRUE, amount_btc |-> BtcOf(50, 50),
                        confirmations |-> confirmations]
                  ELSE NoTx]
  /\ gen = [g \in GenIds |-> IdleGen]
  /\ chk = [c \in ChkIds |-> IdleChk]
  /\ mon = [i \in Indices |-> IdleMon]
  /\ last_return = [k \in Keys |->
                      IF k = <<"s1", 50>>
                      THEN [address |-> deriveBip84Address(0, Network),
                            age |-> "new", amount_btc |-> BtcOf(50, 50)]
                      ELSE NoReturn]
  /\ max_returned = 0
  /\ cdfp = [i \in Indices |-> [calls |-> 0, trues |-> 0]]
  /\ outcome = NoOutcome
  /\ probed = NoProbe
  /\ fetched = NoFetch

NextProbe == ProbeCall

SpecProbe == InitProbe /\ [][NextProbe]_vars

\* one client that asks for addresses and closes its payment window
NextReopen ==
  \/ Advance(GenTimes)
  \/ GenStart(1) \/ GenLookup(1) \/ GenNextIndex(1)
  \/ GenCreatePending(1) \/ GenSchedule(1)
  \/ MarkExpired

SpecReopen == Init /\ [][NextReopen]_vars

\* the life of the Monitor's chain, for a Monitor none of whose calls throws,
\* from the first call of generateBitcoinAddress at the point where it has
\* inserted its row and is about to schedule the Monitor
InitSchedule ==
  /\ now = 0
  /\ bitcoin_config = 1
  /\ pending_bitcoin_payments =
       <<NewPending("s1", deriveBip84Address(0, Network), BtcOf(50, 50), 50,
                    50, 0, Named)>>
  /\ donations = <<>>
  /\ rate_limits = [k \in {"generateAddress", "checkPayment"} \X Sessions |->
                      IF k = <<"generateAddress", "s1">>
                      THEN [value |-> 0, ts |-> 0] ELSE NoLimit]
  /\ scheduled = {}
  /\ chain = [i \in Indices |-> NoTx]
  /\ gen = [g \in GenIds |->
              IF g = 1
              THEN [IdleGen EXCEPT !.pc = "schedule", !.session_id = "s1",
                                   !.amount = 50, !.metadata = Named,
                                   !.btcPrice = 50, !.amount_btc = BtcOf(50, 50),
                                   !.derivation_index = 0,
                                   !.address = deriveBip84Address(0, Network),
                                   !.fresh = TRUE, !.limited = TRUE,
                                   !.limit_ok = TRUE]
              ELSE IdleGen]
  /\ chk = [c \in ChkIds |-> IdleChk]
  /\ mon = [i \in Indices |-> IdleMon]
  /\ last_return = [k \in Keys |-> NoReturn]
  /\ max_returned = -1
  /\ cdfp = [i \in Indices |-> [calls |-> 0, trues |-> 0]]
  /\ outcome = NoOutcome
  /\ probed = NoProbe
  /\ fetched = NoFetch

NextSchedule ==
  \/ Advance(PayTimes)
  \/ GenSchedule(1)
  \/ Blockchain
  \/ \E job \in scheduled : MonStart(job)
  \/ \E i \in Indices :
       \/ MonProbe(i) \/ MonAttach(i) \/ MonSetExpired(i)
       \/ MonCreateDonation(i) \/ MonConfirm(i)
  \/ ChkStart(1) \/ ChkProbe(1) \/ ChkCreateDonation(1) \/ ChkConfirm(1)
  \/ MarkExpired
  \/ CleanupExpired

SpecSchedule == InitSchedule /\ [][NextSchedule]_vars

\* the client of the row asks for its address again, also after the cached
\* price has run out and the price has moved, pays what it was last told, and
\* the Monitor (none of whose calls throws) sees the payment; all of it before
\* the row expires
QuoteTimes == {0, monitorDelay, exchangeRateCache, exchangeRateCache + monitorDelay}

NextQuote ==
  \/ Advance(QuoteTimes)
  \/ GenStart(1) /\ gen'[1].session_id = "s1"
  \/ GenLookupAt(1, Prices)
  \/ now >= exchangeRateCache /\ GenLookupAt(1, CheckPrices)
  \/ \E i \in Indices : PayReturned(i) \/ Mine(i)
  \/ \E job \in scheduled : MonStart(job)
  \/ \E i \in Indices :
       \/ MonProbe(i) \/ MonAttach(i) \/ MonSetExpired(i)
       \/ MonCreateDonation(i) \/ MonConfirm(i)

SpecQuote == InitPayment /\ [][NextQuote]_vars

\* the oracle alone
NextOracle == FetchPrice

SpecOracle == Init /\ [][NextOracle]_vars

\* the Monitor alone, with payments around the tolerance
NextAmount ==
  \/ Advance(PayTimes)
  \/ \E i \in Indices : PayNear(i) \/ Mine(i)
  \/ Monitor

SpecAmount == InitPayment /\ [][NextAmount]_vars

\* payment processing with the hourly cron job: a cleanup run that has
\* something to do is not postponed for ever.  One client call at a time.
NextCleanup ==
  \/ Advance(PayTimes)
  \/ Blockchain
  \/ Monitor
  \/ ChkStart(1) \/ ChkProbe(1) \/ ChkCreateDonation(1) \/ ChkConfirm(1)
  \/ MarkExpired
  \/ CleanupExpired

SpecCleanup ==
  InitPayment /\ [][NextCleanup]_vars /\ WF_vars(CleanupExpired)

\* payment processing with time that advances and handlers that, once they
\* can take a step, take it: a due job starts, a started invocation goes on
SpecMonitor ==
  /\ InitPayment /\ [][NextCleanup]_vars
  /\ SF_vars(Advance(PayTimes))
  /\ WF_vars(Monitor)
  /\ WF_vars(ChkProbe(1) \/ ChkCreateDonation(1) \/ ChkConfirm(1))

\* the row of InitPayment whose address holds, from the start and well before
\* the row expires, a transaction with the required confirmations that pays
\* the expected amount or the tolerance less; every probe finds it.  A job that
\* is due starts, an invocation that has started goes on, a Monitor call does
\* not throw; the client calls when it likes.  No probe finds the transaction
\* short of confirmations, so the Monitor has no transaction to attach.
InitSettle ==
  /\ now = 0
  /\ bitcoin_config = 1
  /\ pending_bitcoin_payments =
       <<[NewPending("s1", deriveBip84Address(0, Network), BtcOf(50, 50), 50,
                     50, 0, Named) EXCEPT !.has_job = TRUE]>>
  /\ donations = <<>>
  /\ rate_limits = [k \in {"generateAddress", "checkPayment"} \X Sessions |->
                      IF k = <<"generateAddress", "s1">>
                      THEN [value |-> 0, ts |-> 0] ELSE NoLimit]
  /\ scheduled = {Job(deriveBip84Address(0, Network), BtcOf(50, 50), 0)}
  /\ \E amount_btc \in {BtcOf(50, 50) - btcAmountTolerance, BtcOf(50, 50)} :
       chain = [i \in Indices |->
                  IF i = 0
                  THEN [seen |-> TRUE, amount_btc |-> amount_btc,
                        confirmations |-> requiredConfirmations]
                  ELSE NoTx]
  /\ gen = [g \in GenIds |-> IdleGen]
  /\ chk = [c \in ChkIds |-> IdleChk]
  /\ mon = [i \in Indices |-> IdleMon]
  /\ last_return = [k \in Keys |->
                      IF k = <<"s1", 50>>
                      THEN [address |-> deriveBip84Address(0, Network),
                            age |-> "new", amount_btc |-> BtcOf(50, 50)]
                      ELSE NoReturn]
  /\ max_returned = 0
  /\ cdfp = [i \in Indices |-> [calls |-> 0, trues |-> 0]]
  /\ outcome = NoOutcome
  /\ probed = NoProbe
  /\ fetched = NoFetch

MonitorGoesOn ==
  \/ \E job \in scheduled : MonStart(job)
  \/ \E i \in Indices :
       \/ MonProbe(i) /\ outcome'.probe = "paid"
       \/ MonSetExpired(i)
       \/ MonCreateDonation(i) \/ MonConfirm(i)

CheckGoesOn ==
  \/ ChkProbe(1) /\ (chk'[1].pc = "donate" \/ outcome'.probe = "paid")
  \/ ChkCreateDonation(1) \/ ChkConfirm(1)

NextSettle ==
  \/ Advance(PayTimes)
  \/ MonitorGoesOn
  \/ ChkStart(1) \/ CheckGoesOn
  \/ MarkExpired
  \/ CleanupExpired

SpecSettle ==
  /\ InitSettle /\ [][NextSettle]_vars
  /\ SF_vars(Advance(PayTimes))
  /\ WF_vars(MonitorGoesOn)
  /\ WF_vars(CheckGoesOn)
  /\ WF_vars(CleanupExpired)

\* ------------------------------------------------------------ properties
StatusIn(rows, address) ==
  LET S == {i \in 1 .. Len(rows) : rows[i].address = address}
  IN  IF S = {} THEN "none" ELSE rows[MinOf(S)].status

\* some invocation for the address executes createDonationFromPayment
CallsCreateDonation(address) ==
  \/ \E c \in ChkIds : /\ chk[c].pc = "donate" /\ chk[c].address = address
                       /\ chk'[c].pc = "confirm"
  \/ /\ mon[IndexOf(address)].pc = "donate"
     /\ mon'[IndexOf(address)].pc = "confirm"

\* C1: no two donations carry the same payment_id, whichever of
\* monitorSinglePayment, checkBitcoinPayment and donation.create wrote them.
DonationPaymentIdUnique ==
  \A i, j \in 1 .. Len(donations) :
    donations[i].payment_id = donations[j].payment_id => i = j

\* Monitor and CheckPayment both went through createDonationFromPayment for the
\* address and its donation stands beside the card donation.
WitnessC1 ==
  /\ cdfp[0].calls >= 2
  /\ DonationByPaymentId(deriveBip84Address(0, Network)) # 0
  /\ Len(donations) >= 2

TerminalStatusKept ==
  [][\A address \in Addresses :
       StatusIn(pending_bitcoin_payments, address) \in {"confirmed", "expired"}
         => StatusIn(pending_bitcoin_payments', address) \in
              {StatusIn(pending_bitcoin_payments, address), "none"}]_vars

\* C4: every change of a row's status is initialized -> pending,
\* initialized -> expired, pending -> confirmed or pending -> expired.
OnlyLifecycleTransitions ==
  [][\A address \in Addresses :
       LET from == StatusIn(pending_bitcoin_payments, address)
           to == StatusIn(pending_bitcoin_payments', address)
       IN  (from # to /\ from # "none" /\ to # "none") =>
             <<from, to>> \in {<<"initialized", "pending">>,
                               <<"initialized", "expired">>,
                               <<"pending", "confirmed">>,
                               <<"pending", "expired">>}]_vars

\* C5: while the transaction paid to an address is short of the row's
\* expected_amount_btc by more than the tolerance, no bitcoin donation with
\* payment_id = address exists.
NoDonationForUnderpayment ==
  \A i \in Indices :
    LET address == deriveBip84Address(i, Network)
        r == RowByAddress(address)
    IN  (/\ r # 0
         /\ chain[i].seen
         /\ Underpayment(chain[i].amount_btc,
                         pending_bitcoin_payments[r].expected_amount_btc))
        => \A d \in 1 .. Len(donations) :
             ~(/\ donations[d].payment_id = address
               /\ donations[d].payment_method = "bitcoin")

\* C6: the rows have pairwise distinct derivation indices and each row's
\* address is the one derived from its index.
DerivationUnique ==
  \A i, j \in 1 .. Len(pending_bitcoin_payments) :
    /\ pending_bitcoin_payments[i].derivation_index =
         pending_bitcoin_payments[j].derivation_index => i = j
    /\ pending_bitcoin_payments[i].address =
         deriveBip84Address(pending_bitcoin_payments[i].derivation_index, Network)

\* two rows exist while two more invocations are between their counter bump
\* and their insert
WitnessC6 ==
  /\ Len(pending_bitcoin_payments) >= 2
  /\ \E g \in GenIds : gen[g].pc = "create"

\* invocation g returns derivation_index idx in this step
Returns(g, idx) ==
  \/ /\ gen[g].pc = "schedule"
     /\ gen'[g].pc = "idle"
     /\ RowByAddress(gen[g].address) # 0
     /\ idx = gen[g].derivation_index
  \/ /\ gen[g].pc = "lookup"
     /\ gen'[g].pc = "idle"
     /\ LET i == checkExistingPaymentSession(gen[g].session_id, gen[g].amount)
        IN  /\ i # 0
            /\ idx = pending_bitcoin_payments[i].derivation_index
            /\ last_return'[<<gen[g].session_id, gen[g].amount>>].address =
                 pending_bitcoin_payments[i].address
            /\ last_return'[<<gen[g].session_id, gen[g].amount>>].age = "new"

\* C7 as stated: every index returned is greater than all returned before it.
ReturnedIndexIncreases ==
  [][\A g \in GenIds, idx \in Indices :
       Returns(g, idx) => idx > max_returned]_vars

\* C7 amended: an invocation that derived a new address returns an index
\* greater than every index returned before its counter bump; one that found
\* an existing row returns that row's index, an index already allocated.
FreshIndexIncreases ==
  [][\A g \in GenIds, idx \in Indices :
       Returns(g, idx) =>
         IF gen[g].fresh
         THEN idx > gen[g].seen_max
         ELSE idx < bitcoin_config]_vars

\* index 1 has been returned and the existing row of index 0 was returned again
WitnessC7 ==
  /\ max_returned >= 1
  /\ \E k \in Keys : /\ last_return[k].address = deriveBip84Address(0, Network)
                     /\ last_return[k].age = "new"

\* C8: an invocation that repeats (session, amount) while the row of the
\* previous return is unexpired does not go on to bump the counter.
RepeatDoesNotBump ==
  \A g \in GenIds : gen[g].within => gen[g].pc \in {"idle", "lookup"}

\* C9: an invocation that repeats (session, amount) 10 s after a return whose
\* row is unexpired reaches the existing-row lookup without the rate limiter
\* having been called, and does not go on to bump the counter.
RepeatSkipsLimiter ==
  \A g \in GenIds :
    (gen[g].after10 /\ gen[g].within) =>
      /\ ~gen[g].limited
      /\ gen[g].pc \in {"idle", "lookup"}

\* C10: an invocation proceeds past the rate limiter only when its request
\* fits the session's limit.
LimitEnforced ==
  \A g \in GenIds : gen[g].limited => gen[g].limit_ok

\* C11: a CheckPayment or MarkExpired call whose session_id differs from the
\* session_id of the address's row throws and changes nothing: no invocation
\* of another session gets past the validation to the probe, the donation or
\* the status update, the call leaves every table, job and limiter state as
\* it was, and a checkPayment token is only ever taken by a call of the
\* row's own session.
ForeignCallRejected ==
  /\ [](\A c \in ChkIds :
          (chk[c].pc # "idle" /\ Found(chk[c].address))
            => OwnedBy(chk[c].address, chk[c].session_id))
  /\ [][(/\ outcome' # outcome
         /\ outcome'.op \in {"checkBitcoinPayment", "markPaymentExpired"}
         /\ outcome'.found
         /\ ~outcome'.owned)
          => /\ outcome'.result = "throws"
             /\ UNCHANGED <<now, bitcoin_config, pending_bitcoin_payments,
                            donations, rate_limits, scheduled, chain, gen,
                            chk, mon, cdfp>>]_vars
  /\ [][\A session_id \in Sessions :
          rate_limits'[<<"checkPayment", session_id>>]
              # rate_limits[<<"checkPayment", session_id>>]
            => \E c \in ChkIds :
                 /\ chk[c].pc = "idle"
                 /\ chk'[c].pc = "probe"
                 /\ chk'[c].session_id = session_id
                 /\ OwnedBy(chk'[c].address, session_id)]_vars

\* another session's CheckPayment for an address whose payment is fully
\* confirmed on chain has just been rejected
WitnessC11 ==
  /\ outcome.op = "checkBitcoinPayment"
  /\ outcome.found
  /\ ~outcome.owned
  /\ outcome.result = "throws"
  /\ chain[0].seen
  /\ chain[0].confirmations = requiredConfirmations
  /\ StatusIn(pending_bitcoin_payments, deriveBip84Address(0, Network))
       \in {"initialized", "pending"}
  /\ donations = <<CardDonation(<<"cs", 1>>)>>

\* what monitorSinglePayment makes of a fully confirmed transaction to the
\* address of row r
MonitorVerdict(i, r) ==
  IF Underpayment(chain[i].amount_btc,
                  pending_bitcoin_payments[r].expected_amount_btc)
  THEN [status |-> "expired", donation |-> FALSE]
  ELSE [status |-> "confirmed", donation |-> TRUE]

\* C12: for a fully confirmed transaction to an address, the row's final
\* status and the existence of its donation are the same whether Monitor,
\* CheckPayment or both processed it: a row is confirmed, and a bitcoin
\* donation for the address exists, only if the Monitor alone would have
\* confirmed it and created the donation.
PathsAgree ==
  \A i \in Indices :
    LET address == deriveBip84Address(i, Network)
        r == RowByAddress(address)
        d == DonationByPaymentId(address)
    IN  (/\ r # 0
         /\ chain[i].seen
         /\ chain[i].confirmations = requiredConfirmations)
        => /\ pending_bitcoin_payments[r].status = "confirmed"
                => MonitorVerdict(i, r).status = "confirmed"
           /\ (d # 0 /\ donations[d].payment_method = "bitcoin")
                => MonitorVerdict(i, r).donation

\* the scheduled and running monitorSinglePayment invocations of an address
MonitorsOf(address) ==
  Cardinality({job \in scheduled : job.address = address})
    + (IF mon[IndexOf(address)].pc # "idle" THEN 1 ELSE 0)

\* C13: a Monitor invocation that starts on a row that is missing, confirmed
\* or expired only consumes its job: no probe, no mutation, no further job;
\* and while the row of an address is missing, confirmed or expired at most one
\* Monitor invocation of the address is scheduled or running, so at most one
\* more starts.
MonitorStopsOnTerminal ==
  /\ [][\A job \in scheduled :
          (/\ job \notin scheduled'
           /\ StatusIn(pending_bitcoin_payments, job.address)
                \in {"none", "confirmed", "expired"})
            => /\ scheduled' = scheduled \ {job}
               /\ UNCHANGED <<now, bitcoin_config, pending_bitcoin_payments,
                              donations, rate_limits, chain, gen, chk, mon,
                              cdfp>>]_vars
  /\ [](\A address \in Addresses :
          StatusIn(pending_bitcoin_payments, address)
              \in {"none", "confirmed", "expired"}
            => MonitorsOf(address) <= 1)

\* the client marked the row expired before any payment, the next Monitor
\* invocation found it expired and the chain of invocations has ended
WitnessC13 ==
  /\ outcome.op = "monitorSinglePayment"
  /\ outcome.result = "stopped"
  /\ outcome.reason = "expired"
  /\ ~chain[0].seen
  /\ MonitorsOf(deriveBip84Address(0, Network)) = 0
  /\ now <= paymentLifetime

\* C14: a Monitor invocation that starts on an initialized or pending row with
\* now > expires_at goes straight to the status update (no probe) without
\* scheduling anything, and that update leaves the row expired, creates no
\* donation and schedules nothing.
MonitorExpiresLateRow ==
  /\ [][\A job \in scheduled :
          LET address == job.address
              r == RowByAddress(address)
          IN  (/\ job \notin scheduled'
               /\ r # 0
               /\ pending_bitcoin_payments[r].status
                    \in {"initialized", "pending"}
               /\ now > pending_bitcoin_payments[r].expires_at)
              => /\ mon'[IndexOf(address)].pc = "set_expired"
                 /\ scheduled' = scheduled \ {job}
                 /\ UNCHANGED <<pending_bitcoin_payments, donations>>]_vars
  /\ [][\A i \in Indices :
          (/\ mon[i].pc = "set_expired"
           /\ mon'[i] # mon[i]
           /\ outcome'.result # "throws")
            => /\ mon'[i].pc = "idle"
               /\ StatusIn(pending_bitcoin_payments',
                           deriveBip84Address(i, Network))
                    \in {"expired", "none"}
               /\ UNCHANGED <<donations, scheduled>>]_vars

\* the row was never paid, its Monitor woke up after expires_at and has set
\* it expired; nothing is scheduled for the address any more
WitnessC14 ==
  /\ outcome.op = "monitorSinglePayment"
  /\ outcome.result = "expired"
  /\ ~chain[0].seen
  /\ now > paymentLifetime
  /\ StatusIn(pending_bitcoin_payments, deriveBip84Address(0, Network))
       = "expired"
  /\ MonitorsOf(deriveBip84Address(0, Network)) = 0
  /\ donations = <<CardDonation(<<"cs", 1>>)>>

\* what one run of the cleanup on the rows of this state leaves behind and
\* returns
CleanupPostcondition ==
  LET rows == pending_bitcoin_payments
      r == cleanupExpiredPendingPayments(rows)
      Overdue(x) == x.status \in {"initialized", "pending"} /\ x.expires_at < now
      Old(x) == x.expires_at < now - expiredRetention
      After(x) == {k \in 1 .. Len(r.rows) : r.rows[k].address = x.address}
      Positions(Test(_)) == {k \in 1 .. Len(rows) : Test(rows[k])}
      Initialized(x) == x.status = "initialized" /\ x.expires_at < now
      Pending(x) == x.status = "pending" /\ x.expires_at < now
      Confirmed(x) == x.status = "confirmed"
      Removed(x) == (x.status = "expired" \/ Overdue(x)) /\ Old(x)
  IN  /\ \A k \in 1 .. Len(rows) :
           LET x == rows[k]
           IN  IF Confirmed(x) \/ Removed(x)
               THEN After(x) = {}
               ELSE IF Overdue(x)
               THEN \E j \in After(x) :
                      r.rows[j] = [x EXCEPT !.status = "expired"]
               ELSE \E j \in After(x) : r.rows[j] = x
      /\ \A j \in 1 .. Len(r.rows) :
           /\ r.rows[j].status # "confirmed"
           /\ ~(r.rows[j].status = "expired" /\ Old(r.rows[j]))
           /\ ~Overdue(r.rows[j])
           /\ \E k \in 1 .. Len(rows) : rows[k].address = r.rows[j].address
      /\ Len(r.rows) <= Len(rows)
      /\ r.counts =
           [markedExpiredInitialized |-> Cardinality(Positions(Initialized)),
            markedExpiredPending |-> Cardinality(Positions(Pending)),
            deletedConfirmed |-> Cardinality(Positions(Confirmed)),
            deletedOldExpired |-> Cardinality(Positions(Removed))]

BitcoinDonationWithinBounds ==
  \A d \in 1 .. Len(donations) :
    donations[d].payment_method = "bitcoin"
      => validDonationAmount(donations[d].amount)

\* C18: when the Monitor confirms an overpayment (received above expected by
\* more than the tolerance, with the required confirmations), the donation it
\* creates has amount_usd equal to the row's expected_amount_usd, and its
\* next step leaves the row confirmed.
OverpaymentCreditedAsQuoted ==
  [][\A i \in Indices :
       LET address == deriveBip84Address(i, Network)
           r == RowByAddress(address)
       IN  (/\ r # 0
            /\ mon[i].pc \in {"donate", "confirm"}
            /\ mon'[i] # mon[i]
            /\ outcome'.result # "throws"
            /\ mon[i].amount_btc >
                 pending_bitcoin_payments[r].expected_amount_btc
                   + btcAmountTolerance)
           => IF mon[i].pc = "donate"
              THEN Len(donations') > Len(donations)
                     => donations'[Len(donations')].amount =
                          pending_bitcoin_payments[r].expected_amount_usd
              ELSE StatusIn(pending_bitcoin_payments', address) = "confirmed"]_vars

\* C19: when the probe returns api_failed or no_payment, a CheckPayment call
\* that got past validation and the limiter returns {paid: false} (it does
\* not throw) and changes no row and no donation; a Monitor invocation
\* changes no row and no donation and schedules exactly one next invocation
\* of the address, monitorDelay later.
NothingPaidIsQuiet ==
  /\ [][\A c \in ChkIds :
          (/\ chk[c].pc = "probe"
           /\ chk'[c] # chk[c]
           /\ \/ ~chain[IndexOf(chk[c].address)].seen
              \/ /\ chk'[c].pc = "idle"
                 /\ outcome'.probe \in {"api_failed", "no_payment"})
            => /\ chk'[c].pc = "idle"
               /\ outcome'.op = "checkBitcoinPayment"
               /\ outcome'.result = "not_paid"
               /\ UNCHANGED <<pending_bitcoin_payments, donations,
                              scheduled, rate_limits>>]_vars
  /\ [][\A i \in Indices :
          (/\ mon[i].pc = "probe"
           /\ mon'[i] # mon[i]
           /\ outcome'.result # "throws"
           /\ \/ ~chain[i].seen
              \/ outcome'.probe \in {"api_failed", "no_payment"})
            => /\ mon'[i].pc = "idle"
               /\ outcome'.op = "monitorSinglePayment"
               /\ outcome'.result = "rescheduled"
               /\ UNCHANGED <<pending_bitcoin_payments, donations>>
               /\ \E job \in scheduled' \ scheduled :
                    /\ scheduled' = scheduled \cup {job}
                    /\ job.address = deriveBip84Address(i, Network)
                    /\ job.run_at = now + monitorDelay
               /\ MonitorsOf(deriveBip84Address(i, Network))' = 1]_vars

\* the explorers failed while the payment to the address was fully confirmed:
\* the client's CheckPayment has just returned {paid: false}, the row is still
\* open and there is no donation for it
WitnessC19 ==
  /\ outcome.op = "checkBitcoinPayment"
  /\ outcome.probe = "api_failed"
  /\ outcome.result = "not_paid"
  /\ chain[0].seen
  /\ chain[0].confirmations = requiredConfirmations
  /\ StatusIn(pending_bitcoin_payments, deriveBip84Address(0, Network))
       \in {"initialized", "pending"}
  /\ DonationByPaymentId(deriveBip84Address(0, Network)) = 0

MarkExpiredOnlyInitialized ==
  /\ [](\A address \in Addresses, session_id \in Sessions :
          LET rows == pending_bitcoin_payments
              after == markPaymentExpired(rows, address, session_id).rows
              changed == {i \in 1 .. Len(rows) : after[i] # rows[i]}
          IN  /\ Len(after) = Len(rows)
              /\ \A i \in changed :
                   /\ rows[i].address = address
                   /\ rows[i].session_id = session_id
                   /\ rows[i].status = "initialized"
                   /\ after[i] = [rows[i] EXCEPT !.status = "expired"]
              /\ (/\ OwnedBy(address, session_id)
                  /\ StatusIn(rows, address) = "initialized")
                   => StatusIn(after, address) = "expired"
              /\ StatusIn(rows, address) \in {"pending", "confirmed", "expired"}
                   => after = rows)
  /\ [][\A address \in Addresses, session_id \in Sessions :
          (/\ outcome'.op = "markPaymentExpired"
           /\ pending_bitcoin_payments' =
                markPaymentExpired(pending_bitcoin_payments, address,
                                   session_id).rows)
            => (markPaymentExpired(pending_bitcoin_payments, address,
                                   session_id).rows)'
                 = pending_bitcoin_payments']_vars

\* the owner's call has just closed the initialized row, after the donor's
\* transaction reached the chain unnoticed
WitnessC21 ==
  /\ outcome.op = "markPaymentExpired"
  /\ outcome.result = "marked"
  /\ StatusIn(pending_bitcoin_payments, deriveBip84Address(0, Network))
       = "expired"
  /\ chain[0].seen

PublicDonationOnly ==
  /\ \A k \in DOMAIN getDonorList :
       DOMAIN getDonorList[k] = {"id", "display_name", "amount"}
  /\ \A payment_id \in CreateIds \cup Addresses :
       DOMAIN getDonationByPaymentId(payment_id)
         \subseteq {"id", "display_name", "amount"}

\* C25: checkExistingPaymentSession(session_id, amount) returns a row (its
\* address and derivation index) of that session and amount whose expires_at
\* is still ahead whenever the table holds such a row, an older overdue row
\* of the same session and amount notwithstanding, and null only when the
\* table holds none.
ExistingSessionFound ==
  \A session_id \in Sessions, amount \in Amounts :
    LET unexpired == {i \in 1 .. Len(pending_bitcoin_payments) :
                        /\ pending_bitcoin_payments[i].session_id = session_id
                        /\ pending_bitcoin_payments[i].expected_amount_usd
                             = amount
                        /\ pending_bitcoin_payments[i].expires_at > now}
    IN  IF unexpired = {}
        THEN checkExistingPaymentSession(session_id, amount) = 0
        ELSE checkExistingPaymentSession(session_id, amount) \in unexpired

\* what updatePendingPaymentWithTx(address, txid) would leave of the table
AfterAttach(address, txid) ==
  updatePendingPaymentWithTx(pending_bitcoin_payments, address, txid)

ProbedTx == chain[probed.index]

\* C27: on mainnet the probe returns the result of mempool.space unless that
\* explorer failed, then the result of blockstream.info unless it failed too,
\* then api_failed; on testnet it asks mempool.space only and returns
\* api_failed when that explorer failed; a 404 of the address endpoint of the
\* explorer whose result counts gives no_payment.
ProbeAsksPrimaryThenFallback ==
  probed.index >= 0 =>
    LET primary == checkMempoolSpace(probed.http, ProbedTx)
        fallback == checkBlockstream(probed.http, ProbedTx)
        primary_failed == \/ probed.http.mempool_address \in {"500", "throws"}
                          \/ /\ probed.http.mempool_address = "ok"
                             /\ ProbedTx.seen
                             /\ probed.http.mempool_txs # "ok"
        answer == probed.result.answer
    IN  /\ primary_failed = (primary = NullResult)
        /\ probed.result.asked[1] = "mempool.space"
        /\ answer # NullResult
        /\ ~primary_failed
             => /\ answer = primary
                /\ probed.result.asked = <<"mempool.space">>
        /\ probed.http.mempool_address = "404" => answer = NoPayment
        /\ probed.network = "mainnet" /\ primary_failed
             => /\ probed.result.asked = <<"mempool.space", "blockstream.info">>
                /\ fallback # NullResult => answer = fallback
                /\ fallback = NullResult => answer = ApiFailed
                /\ probed.http.blockstream_address = "404"
                     => answer = NoPayment
        /\ probed.network = "testnet"
             => /\ probed.result.asked = <<"mempool.space">>
                /\ primary_failed => answer = ApiFailed

\* on mainnet mempool.space was unreachable and blockstream.info reported the
\* fully confirmed transaction
WitnessC27 ==
  /\ probed.index = 0
  /\ probed.network = "mainnet"
  /\ probed.http.mempool_address = "throws"
  /\ probed.result.asked = <<"mempool.space", "blockstream.info">>
  /\ probed.result.answer.status = "paid"
  /\ probed.result.answer.confirmations = requiredConfirmations

\* C28 as stated: for either explorer, when the address endpoint answers with
\* a positive funded amount and the transaction endpoint fails, the explorer's
\* result is pending with 0 confirmations.
PartialResponseIsPending ==
  (probed.index >= 0 /\ ProbedTx.seen) =>
    /\ (/\ probed.http.mempool_address = "ok"
        /\ probed.http.mempool_txs # "ok")
         => /\ checkMempoolSpace(probed.http, ProbedTx).status = "pending"
            /\ checkMempoolSpace(probed.http, ProbedTx).confirmations = 0
    /\ (/\ probed.http.blockstream_address = "ok"
        /\ probed.http.blockstream_tx # "ok")
         => /\ checkBlockstream(probed.http, ProbedTx).status = "pending"
            /\ checkBlockstream(probed.http, ProbedTx).confirmations = 0

\* C28 (amended): when the address endpoint answers with a positive received
\* amount, blockstream.info's result is pending with 0 confirmations, the
\* transaction's hash and the received amount if the transaction endpoint
\* answers with an error status, and a failure if that request throws;
\* mempool.space's result is a failure whenever the request of the
\* transaction list fails, so that the probe goes on to blockstream.info on
\* mainnet and returns api_failed on testnet.
PartialResponseOfFallbackIsPending ==
  (probed.index >= 0 /\ ProbedTx.seen) =>
    /\ probed.http.blockstream_address = "ok" =>
         /\ probed.http.blockstream_tx = "500"
              => checkBlockstream(probed.http, ProbedTx) =
                   [status |-> "pending", tx_hash |-> "tx",
                    amount_btc |-> ProbedTx.amount_btc, confirmations |-> 0]
         /\ probed.http.blockstream_tx = "throws"
              => checkBlockstream(probed.http, ProbedTx) = NullResult
    /\ (/\ probed.http.mempool_address = "ok"
        /\ probed.http.mempool_txs # "ok")
         => /\ checkMempoolSpace(probed.http, ProbedTx) = NullResult
            /\ probed.network = "testnet" => probed.result.answer = ApiFailed
            /\ probed.network = "mainnet"
                 => /\ probed.result.asked[Len(probed.result.asked)]
                         = "blockstream.info"
                    /\ probed.result.answer
                         = IF checkBlockstream(probed.http, ProbedTx)
                                = NullResult
                           THEN ApiFailed
                           ELSE checkBlockstream(probed.http, ProbedTx)

\* mempool.space's transaction list failed for a fully confirmed payment and
\* blockstream.info's transaction endpoint answered an error: the probe
\* returned pending with 0 confirmations
WitnessC28 ==
  /\ probed.index = 0
  /\ probed.network = "mainnet"
  /\ ProbedTx.confirmations = requiredConfirmations
  /\ probed.http.mempool_address = "ok"
  /\ probed.http.mempool_txs = "500"
  /\ probed.http.blockstream_address = "ok"
  /\ probed.http.blockstream_tx = "500"
  /\ probed.result.answer.status = "pending"
  /\ probed.result.answer.confirmations = 0

\* C29: a generateBitcoinAddress invocation that the rate limiter refused, and
\* one that ends at getBtcPrice because no price is to be had, changes neither
\* the derivation counter nor a row nor the scheduled jobs; an invocation
\* whose amount fails validation changes nothing at all, the limiter's state
\* included.
FailedGenerateChangesNothing ==
  /\ [][\A g \in GenIds :
          (/\ gen[g].limited
           /\ ~gen[g].limit_ok
           /\ gen'[g] # gen[g])
            => UNCHANGED <<bitcoin_config, pending_bitcoin_payments,
                           scheduled>>]_vars
  /\ [][\A g \in GenIds :
          (/\ gen[g].pc = "lookup"
           /\ gen'[g] = IdleGen
           /\ UNCHANGED last_return)
            => UNCHANGED <<bitcoin_config, pending_bitcoin_payments,
                           scheduled>>]_vars
  /\ [][\A g \in GenIds :
          (/\ gen[g].pc = "idle"
           /\ gen'[g].pc # "idle")
            => /\ validDonationAmount(gen'[g].amount)
               /\ gen'[g].limited]_vars

\* C30: with time advancing and handlers scheduled fairly every Monitor chain
\* ends: from some moment on no monitorSinglePayment invocation of any
\* address is scheduled or running; and an invocation goes to the probe only
\* when it starts on a row whose expires_at now has not passed.
MonitorChainsEnd ==
  /\ <>[](/\ scheduled = {}
          /\ \A i \in Indices : mon[i].pc = "idle")
  /\ [][\A i \in Indices :
          (mon[i].pc # "probe" /\ mon'[i].pc = "probe")
            => LET r == RowByAddress(deriveBip84Address(i, Network))
               IN  /\ mon[i].pc = "idle"
                   /\ r # 0
                   /\ now <= pending_bitcoin_payments[r].expires_at]_vars

\* the chain of the row polled to the end: the invocation that started after
\* expires_at did not probe, it set the row expired, and nothing is scheduled
\* or running any more although the payment is on the chain
WitnessC30 ==
  /\ now > paymentLifetime
  /\ scheduled = {}
  /\ \A i \in Indices : mon[i].pc = "idle"
  /\ outcome.op = "monitorSinglePayment"
  /\ outcome.result = "expired"
  /\ chain[0].seen
  /\ StatusIn(pending_bitcoin_payments, deriveBip84Address(0, Network))
       = "expired"

\* the number of getNextDerivationIndex calls so far, as the counter row tells
\* it: none while the row does not exist, its value afterwards
CallsSoFar == IF bitcoin_config = -1 THEN 0 ELSE bitcoin_config

\* C31: the counter row does not exist until the first getNextDerivationIndex
\* call, which creates it with value 1 and returns 0; every later call returns
\* the stored value and stores one more, so the k-th call returns k-1; the
\* stored value never decreases, nothing but getNextDerivationIndex changes
\* it, and it is greater than every index handed out (to an invocation, on a
\* row, or returned to a client), also after an invocation failed between the
\* bump and the insert of its row.
CounterAheadOfEveryIndex ==
  /\ [](/\ bitcoin_config = -1 \/ bitcoin_config >= 1
        /\ max_returned < CallsSoFar
        /\ \A g \in GenIds : gen[g].derivation_index < CallsSoFar
        /\ \A r \in 1 .. Len(pending_bitcoin_payments) :
             pending_bitcoin_payments[r].derivation_index < CallsSoFar)
  /\ [][/\ bitcoin_config' >= bitcoin_config
        /\ bitcoin_config' # bitcoin_config
             => /\ bitcoin_config' = CallsSoFar + 1
                /\ \E g \in GenIds : /\ gen[g].pc = "index"
                                     /\ gen'[g].pc = "create"
        /\ \A g \in GenIds :
             (gen[g].pc = "index" /\ gen'[g].pc = "create")
               => /\ gen'[g].derivation_index = CallsSoFar
                  /\ bitcoin_config' = CallsSoFar + 1]_vars

\* two indices were handed out and one of them was lost: no invocation is
\* running, the counter is at 2 and there is one row
WitnessC31 ==
  /\ bitcoin_config = 2
  /\ Len(pending_bitcoin_payments) = 1
  /\ \A g \in GenIds : gen[g].pc = "idle"

\* the successful answers of the latest fetch
Quoted == {s \in 1 .. Len(fetched.answers) : fetched.answers[s].ok}

ReturnedBy(g) ==
  LET key == <<gen[g].session_id, gen[g].amount>>
      existing == checkExistingPaymentSession(gen[g].session_id, gen[g].amount)
      address == IF gen[g].pc = "lookup" /\ existing # 0
                 THEN pending_bitcoin_payments[existing].address
                 ELSE IF gen[g].pc = "schedule" THEN gen[g].address
                 ELSE NoAddress
  IN  IF /\ address # NoAddress
         /\ gen'[g].pc = "idle"
         /\ last_return'[key].address = address
         /\ last_return'[key].age = "new"
      THEN address ELSE NoAddress

\* C33: whenever generateBitcoinAddress returns an address, the row of that
\* address is initialized or pending at the time of the return, never expired
\* or confirmed.
ReturnedAddressIsOpen ==
  [][\A g \in GenIds :
       ReturnedBy(g) # NoAddress =>
         \E r \in 1 .. Len(pending_bitcoin_payments') :
           /\ pending_bitcoin_payments'[r].address = ReturnedBy(g)
           /\ pending_bitcoin_payments'[r].status \in {"initialized", "pending"}]_vars

\* C34: at every moment an address has at most one scheduled or running
\* invocation of monitorSinglePayment, and exactly one from the return of the
\* generateBitcoinAddress call that created its row (the row has its job) for as
\* long as the row exists and is initialized or pending, when no call of the
\* Monitor throws.
OneMonitorPerAddress ==
  \A i \in Indices :
    /\ MonitorsOf(deriveBip84Address(i, Network)) <= 1
    /\ \A r \in 1 .. Len(pending_bitcoin_payments) :
         (/\ pending_bitcoin_payments[r].address = deriveBip84Address(i, Network)
          /\ pending_bitcoin_payments[r].has_job
          /\ pending_bitcoin_payments[r].status \in {"initialized", "pending"})
           => MonitorsOf(deriveBip84Address(i, Network)) = 1

\* the address was returned, a transaction was attached to its row, and the
\* Monitor that attached it has scheduled its successor
WitnessC34 ==
  /\ gen[1].pc = "idle"
  /\ Len(pending_bitcoin_payments) = 1
  /\ pending_bitcoin_payments[1].has_job
  /\ pending_bitcoin_payments[1].status = "pending"
  /\ mon[0].pc = "idle"
  /\ \E job \in scheduled : /\ job.address = deriveBip84Address(0, Network)
                            /\ job.run_at > monitorDelay

\* C35: in every reachable state, a row of pending_bitcoin_payments whose
\* status is confirmed has a donation whose payment_id is the row's address.
ConfirmedRowHasDonation ==
  \A r \in 1 .. Len(pending_bitcoin_payments) :
    pending_bitcoin_payments[r].status = "confirmed"
      => DonationByPaymentId(pending_bitcoin_payments[r].address) # 0

\* the row was confirmed and not yet deleted, and its donation is in the table
WitnessC35 ==
  /\ Len(pending_bitcoin_payments) = 1
  /\ pending_bitcoin_payments[1].status = "confirmed"
  /\ DonationByPaymentId(pending_bitcoin_payments[1].address) # 0
  /\ donations[DonationByPaymentId(pending_bitcoin_payments[1].address)]
       .payment_method = "bitcoin"

\* C36: the amount_btc that generateBitcoinAddress last returned with an
\* address is the expected_amount_btc of the address's row, and the Monitor
\* does not end with an underpayment when the transaction on the address pays
\* exactly that amount.
ReturnedAmountIsExpected ==
  \A k \in Keys :
    LET r == RowByAddress(last_return[k].address)
    IN  (last_return[k].address # NoAddress /\ r # 0) =>
          /\ last_return[k].amount_btc = pending_bitcoin_payments[r].expected_amount_btc
          /\ (/\ outcome.op = "monitorSinglePayment"
              /\ outcome.result = "underpaid"
              /\ mon[IndexOf(last_return[k].address)].pc = "set_expired")
               => chain[IndexOf(last_return[k].address)].amount_btc
                    # last_return[k].amount_btc

\* C37: the display_name and the message of a Bitcoin donation are those of the
\* metadata stored on the row of its address when the address was generated,
\* whatever metadata the checkBitcoinPayment calls carried.
DonationNameFromRow ==
  \A d \in 1 .. Len(donations), r \in 1 .. Len(pending_bitcoin_payments) :
    (/\ donations[d].payment_method = "bitcoin"
     /\ donations[d].payment_id = pending_bitcoin_payments[r].address)
      => /\ donations[d].display_name =
              getDisplayName(pending_bitcoin_payments[r].metadata, "Anonymous")
         /\ donations[d].message = pending_bitcoin_payments[r].metadata.message

\* C38: a row that is initialized or pending well before its expires_at, and
\* whose address every probe from then on finds paid with the required
\* confirmations and an amount within the tolerance of the expected one, is
\* eventually confirmed and eventually has its donation, whatever
\* markPaymentExpired, checkBitcoinPayment and the cleanup do in between.
PaidRowSettles ==
  /\ <>(DonationByPaymentId(deriveBip84Address(0, Network)) # 0)
  /\ <>(StatusIn(pending_bitcoin_payments, deriveBip84Address(0, Network))
          = "confirmed")

====
